---- MODULE Spec2Model ----
(***************************************************************************)
(* Deep-Live-Cam serverless video face swap API.                           *)
(*                                                                         *)
(* Eleven specifications over one set of variables:                        *)
(*   Spec      the process of serverless/src/handler.py: the module-level  *)
(*             initialize() at import, then handler() invocations served   *)
(*             one after the other, on any job input (globals              *)
(*             _initialized, s3_service, engine).                          *)
(*   SpecConc  the same process with handler() invocations running         *)
(*             concurrently on worker threads.                             *)
(*   SpecPV    one run of FaceSwapEngine.process_video                     *)
(*             (serverless/src/core/engine.py): extraction, the per-frame  *)
(*             stage on the main thread or on a thread pool, assembly,     *)
(*             audio restoration and frame cleanup.                        *)
(*   SpecPVLive    SpecPV with weak fairness of its steps; SpecPV itself   *)
(*             runs on one target video, with keep_fps set.                *)
(*   SpecPVTarget  one run of process_video on any target file, its frames *)
(*             processed on the calling thread.                            *)
(*   SpecEnh   the FaceEnhancer.enhance calls of the process's threads     *)
(*             (serverless/src/core/face_enhancer.py).                     *)
(*   SpecS3    one call of S3Service.download or S3Service.upload          *)
(*             (serverless/src/services/s3_service.py), any arguments.     *)
(*   SpecFrame one call of process_single_frame (engine.py) on a frame     *)
(*             that was read, with its detection, swaps and enhancement.   *)
(*   SpecRegion   the boto3 clients one S3Service builds and uses.          *)
(*   SpecScratch  the scratch directories of concurrent handler            *)
(*             invocations (serverless/src/services/temp_storage.py).      *)
(*   SpecCb    one call of CallbackService.send                            *)
(*             (serverless/src/services/callback_service.py).              *)
(***************************************************************************)
EXTENDS Integers, Sequences, FiniteSets, TLC

(***************************************************************************)
(* Bounds of the model                                                     *)
(***************************************************************************)
NThreads == 2
MaxJobs == 2
MaxCallbackRetries == 3
MaxFrames == 2
MaxThreads == 2
MaxFaces == 2
\* FaceEnhancer objects alive in the process
MaxEnhancers == 2
\* the largest max_retries given to S3Service.download / upload
\* uses of a client of one S3Service
MaxClientUses == 3
NInvocations == 2

MaxS3Retries == 4

(***************************************************************************)
(* Program constants                                                       *)
(***************************************************************************)
S3DefaultMaxRetries == 3
max_video_duration == 600
max_video_size_mb == 2048
\* engine.py:249,263: a progress line every 100 frames
ProgressEvery == 100

FramePatternWidth == 6

VARIABLES
    \* ---- process state of handler.py ----
    callback_max_retries,   \* settings.callback_max_retries
    _initialized,           \* handler._initialized
    s3_service,             \* handler.s3_service: 0 is None, else an object id
    engine,                 \* handler.engine: 0 is None, else an engine id
    engines,                \* the FaceSwapEngine objects constructed so far
    nEngines,               \* how many FaceSwapEngine() were constructed
    nS3,                    \* how many S3Service() were constructed
    loads,                  \* per provider, how many times it was constructed
    pc,                     \* per thread, its position
    self_engine,            \* per thread, `self` of the load_models it is in
    job,                    \* per thread, the job given to handler
    err,                    \* per thread, the error being handled: code and cause
    response,               \* per thread, what handler returned
    cleanups,               \* per thread, calls of temp_storage.cleanup()
    job_dir,                \* per thread, os.path.exists(temp_storage.job_dir)
    uploaded,               \* per thread, s3_service.upload returned
    sent,                   \* per thread, payload statuses given to CallbackService.send
    jobs_left,              \* per thread, the handler invocations it still runs
    job_space,              \* the jobs the process is given
    video_space,            \* the target videos the jobs point at
    steps,                  \* per thread, the steps of handler its job went
                            \* through, each with whether it succeeded
    probed,                 \* per thread, the get_video_info calls on its target
    received,               \* per thread, the status of each payload of its job
                            \* that was POSTed to the webhook
    target_too_long,        \* per thread, its target video is longer than
                            \* settings.max_video_duration
    \* ---- one run of FaceSwapEngine.process_video ----
    models_loaded,          \* self._models_loaded
    options,                \* the ProcessingOptions of the job
    ppc,                    \* position of the thread running process_video
    raised_at,              \* the stage process_video raised in, or "none"
    K,                      \* frames the extraction wrote
    frames_dir,             \* the frames directory: file name -> the frame paths whose
                            \* units of work rewrote the file, in order
    frame_paths,            \* what extract_frames returned
    total_frames,           \* len(frame_paths)
    queue,                  \* the executor's work queue
    futures,                \* per frame path, the state of its unit of work
    fexc,                   \* per frame path, what its unit of work raised
    consumed,               \* the futures as_completed has yielded
    seq_i,                  \* the index i of the sequential loop
    wpc,                    \* per worker, its position in process_single_frame
    task,                   \* per worker, the frame_path it was handed
    unread,                 \* per worker, cv2.imread returned None
    faces_count,            \* per worker, faces_count of its frame
    calls,                  \* per frame path, calls of process_single_frame
    incs,                   \* per frame path, progress.increment() calls completed
    progress_current,       \* progress.current
    progress_lock,          \* holders of progress._lock
    inc_tmp,                \* per worker, the value of current read by +=
    max_faces_detected,     \* the nonlocal running maximum
    faces_lock,             \* holders of faces_lock
    max_tmp,                \* per worker, the maximum read inside the lock
    assembled,              \* the frame files create_video read, in order
    output_video,           \* the output file: "none", "video", "video+audio"
    result,                 \* the ProcessingResultData returned
    audio,                  \* the restore_audio call: what its probe met, what it
                            \* returned, its mux runs, whether its temp file is left
    target_path,            \* the file at target_video_path and what ffprobe
                            \* says of it
    video_info,             \* what get_video_info returned to process_video
    fps,                    \* the local fps of process_video
    framerate,              \* the fps argument create_video was called with
    detections,             \* <<frame path, faces_count>> of every frame whose
                            \* process_single_frame got past cv2.imread
    reports,                \* the counts of the "Progress: n/total" lines logged
    \* ---- FaceEnhancer.enhance calls of the process ----
    _semaphore,             \* per owner of a _semaphore attribute, its permits
    epc,                    \* per calling thread, its position in enhance
    eself,                  \* per calling thread, `self` of its call
    eframe,                 \* per calling thread, the frame it passed
    eout,                   \* per calling thread, how self.enhancer.enhance ended
    eret,                   \* per calling thread, what enhance returned
    \* ---- one call of S3Service.download or S3Service.upload ----
    s3_pc,                  \* "off", "called" or "returned"
    s3_call,                \* the method, its max_retries, what each attempt
                            \* meets and whether the local file of an upload exists
    s3_ret,                 \* what the call returned or raised
    \* ---- one call of CallbackService.send ----
    cb_pc,                  \* "off", "called" or "returned"
    cb_call,                \* its max_retries and what each POST meets
    cb_ret,                 \* what send returned or raised, its POSTs and sleeps
    \* ---- one call of process_single_frame on a frame that was read ----
    fr_pc,                  \* "off", "called" or "returned"
    fr_call,                \* the options, the faces in the frame and how each
                            \* provider call ends
    fr_ret,                 \* what the call returned and did
    \* ---- the clients of one S3Service ----
    rg_pc,                  \* "off" or "ready" (constructed)
    rg_clients,             \* per boto3 client built, in order, its region
    rg_calls,               \* per use of a client by download, upload or
                            \* check_exists, the method, the region and the client
    \* ---- the scratch directories of concurrent handler invocations ----
    sc_pc,                  \* per invocation, its position in handler
    sc_job_id,              \* per invocation, the job_id of its input
    sc_dirs,                \* the directories that exist under temp_dir
    sc_files                \* the files that exist under temp_dir, each with
                            \* the invocation that wrote it

hvars == <<callback_max_retries, _initialized, s3_service, engine, engines,
           nEngines, nS3, loads, pc, self_engine, job, err, response,
           cleanups, job_dir, uploaded, sent, jobs_left, job_space,
           video_space, target_too_long, steps, probed, received>>

pvars == <<models_loaded, options, ppc, raised_at, K, frames_dir, frame_paths,
           total_frames, queue, futures, fexc, consumed, seq_i, wpc, task,
           unread, faces_count, calls, incs, progress_current,
           progress_lock, inc_tmp, max_faces_detected, faces_lock, max_tmp,
           assembled, output_video, result, audio, target_path, video_info,
           fps, framerate, detections, reports>>

\* the probe of the target, the frame rate chosen from it, and what was
\* detected in the frames
ivars == <<target_path, video_info, fps, framerate, detections, reports>>

evars == <<_semaphore, epc, eself, eframe, eout, eret>>

svars == <<s3_pc, s3_call, s3_ret>>

bvars == <<cb_pc, cb_call, cb_ret>>

fvars == <<fr_pc, fr_call, fr_ret>>

\* the calls looked at on their own, other than the three above
rvars == <<rg_pc, rg_clients, rg_calls>>

tvars == <<sc_pc, sc_job_id, sc_dirs, sc_files>>

xvars == <<fvars, rvars, tvars>>

cvars == <<evars, svars, bvars, xvars>>

vars == <<hvars, pvars, cvars>>

(***************************************************************************)
(* Threads: 0 is the thread importing handler.py (it runs the module-level *)
(* initialize()), 1..NThreads run handler().                               *)
(***************************************************************************)
MainThread == 0
Workers == 1..NThreads
ThreadIds == 0..NThreads
EngineIds == 1..(NThreads * MaxJobs + 1)

Providers == {"face_analyser", "face_swapper", "face_enhancer"}

\* FaceSwapEngine.__init__
NewEngine ==
    [face_analyser |-> FALSE, face_swapper |-> FALSE, face_enhancer |-> FALSE,
     _models_loaded |-> FALSE, _load_lock |-> {}]

(***************************************************************************)
(* Job inputs. job["input"] is a dict or not; job_id is a non-empty string,*)
(* the empty string, absent (the RunPod id is used) or not a string (null, *)
(* a number); the remaining fields validate, are malformed, or name an     *)
(* unsupported file extension; callback_url is set or not.                 *)
(***************************************************************************)
JobIdKinds == {"good", "empty", "absent", "nonstr"}
FieldKinds == {"ok", "malformed", "bad_ext"}
Jobs ==
    [input_is_dict : {TRUE}, job_id : JobIdKinds, fields : FieldKinds,
     callback_url : BOOLEAN]
    \cup
    [input_is_dict : {FALSE}, job_id : {"absent"}, fields : {"malformed"},
     callback_url : {FALSE}]
NoJob == [input_is_dict |-> FALSE, job_id |-> "none", fields |-> "none",
          callback_url |-> FALSE]

(***************************************************************************)
(* CallbackService.send: the attempts loop. outcomes[i] is what the i-th   *)
(* POST does. The result is what send does: it returns True ("ok") or      *)
(* raises last_error, which is a CallbackError once an attempt has failed  *)
(* and None (raise None is a TypeError) when the loop body never ran.      *)
(***************************************************************************)
PostOutcomes == {"2xx", "non2xx", "Timeout", "RequestException"}

RECURSIVE Pow(_, _)
Pow(b, n) == IF n = 0 THEN 1 ELSE b * Pow(b, n - 1)

RECURSIVE send_loop(_, _, _, _, _, _)
send_loop(max_retries, outcomes, attempt, posts, sleeps, last_error) ==
    IF attempt >= max_retries
    THEN [result |-> IF last_error = "None" THEN "TypeError" ELSE last_error,
          posts |-> posts, sleeps |-> sleeps]
    ELSE IF outcomes[attempt + 1] = "2xx"
         THEN [result |-> "ok", posts |-> posts + 1, sleeps |-> sleeps]
         ELSE send_loop(max_retries, outcomes, attempt + 1, posts + 1,
                        IF attempt < max_retries - 1
                        THEN Append(sleeps, 5 * Pow(3, attempt))
                        ELSE sleeps,
                        "CallbackError")

CallbackService_send(max_retries, outcomes) ==
    send_loop(max_retries, outcomes, 0, 0, <<>>, "None")

\* the per-attempt outcomes a call of send with this max_retries may meet
PostRuns(max_retries) == [1..max_retries -> PostOutcomes]

(***************************************************************************)
(* S3Service.download / S3Service.upload, services/s3_service.py:48-193.   *)
(* An attempt of download ends with the local file written ("ok"), written *)
(* with no bytes ("empty"), not there after download_file returned         *)
(* ("missing"), or with download_file raising; an attempt of upload ends   *)
(* with upload_file returning ("ok") or raising. The result tells what the *)
(* call returned or raised, the attempts made and the sleeps taken.        *)
(***************************************************************************)
DownloadOutcomes == {"ok", "empty", "missing", "ClientError", "Exception"}
UploadOutcomes == {"ok", "ClientError", "Exception"}

\* lines 73, 149: last_error = None
NoS3Error == [code |-> "None", original_error |-> [attempt |-> 0, kind |-> "None"]]

\* lines 86-93: the attempt returns local_path when os.path.exists says so;
\* os.path.getsize is only logged
attempt_succeeds(outcome) == outcome \in {"ok", "empty"}

\* lines 87-88, 95-110: what the except clauses of an attempt catch; a file
\* that is not there is an S3Error raised inside the try
failure_of(outcome) == IF outcome = "missing" THEN "S3Error" ELSE outcome

\* a wait after every failed attempt
backoff_always(attempt, max_retries) == TRUE

\* lines 113, 188: if attempt < max_retries - 1
backoff_due(attempt, max_retries) == attempt < max_retries - 1

RECURSIVE transfer_loop(_, _, _, _, _, _, _)
transfer_loop(code, max_retries, outcomes, attempt, tries, sleeps, last_error) ==
    IF attempt >= max_retries
    THEN [result |-> IF last_error = NoS3Error THEN "TypeError" ELSE "S3Error",
          code |-> last_error.code,
          original_error |-> last_error.original_error,
          attempts |-> tries, sleeps |-> sleeps, file |-> "none"]
    ELSE IF attempt_succeeds(outcomes[attempt + 1])
         THEN [result |-> "ok", code |-> "None",
               original_error |-> NoS3Error.original_error,
               attempts |-> tries + 1, sleeps |-> sleeps,
               file |-> outcomes[attempt + 1]]
         ELSE transfer_loop(code, max_retries, outcomes, attempt + 1, tries + 1,
                            IF backoff_due(attempt, max_retries)
                            THEN Append(sleeps, Pow(2, attempt))
                            ELSE sleeps,
                            [code |-> code,
                             original_error |->
                                 [attempt |-> attempt + 1,
                                  kind |-> failure_of(outcomes[attempt + 1])]])

S3Service_download(max_retries, outcomes) ==
    transfer_loop("S3_DOWNLOAD_ERROR", max_retries, outcomes, 0, 0, <<>>, NoS3Error)

\* an upload that goes to the attempts without looking at the local file
S3Service_upload_unchecked(local_exists, max_retries, outcomes) ==
    transfer_loop("S3_UPLOAD_ERROR", max_retries, outcomes, 0, 0, <<>>, NoS3Error)

\* lines 143-144: the local file is looked for before the attempts
S3Service_upload(local_exists, max_retries, outcomes) ==
    IF ~local_exists
    THEN [result |-> "S3Error", code |-> "S3_UPLOAD_ERROR",
          original_error |-> NoS3Error.original_error,
          attempts |-> 0, sleeps |-> <<>>, file |-> "none"]
    ELSE transfer_loop("S3_UPLOAD_ERROR", max_retries, outcomes, 0, 0, <<>>,
                       NoS3Error)

DownloadRuns(max_retries) == [1..max_retries -> DownloadOutcomes]
UploadRuns(max_retries) == [1..max_retries -> UploadOutcomes]

(***************************************************************************)
(* validate_request: the request validates only when job_id is a non-empty *)
(* string and the other fields parse; the code is that of the              *)
(* ValidationError raised otherwise.                                       *)
(***************************************************************************)
validate_request(j) ==
    IF j.job_id # "good" \/ j.fields = "malformed" THEN "INVALID_REQUEST"
    ELSE IF j.fields = "bad_ext" THEN "UNSUPPORTED_FORMAT"
    ELSE "ok"

(***************************************************************************)
(* validate_video_constraints on the probed video info                     *)
(***************************************************************************)
Durations == {0, max_video_duration, max_video_duration + 1}
Sizes == {1, max_video_size_mb, max_video_size_mb + 1}

\* where ffprobe reports the duration of a video: in the stream entry, only
\* at container level, nowhere, or ffprobe fails
\* ("failed"), or prints a line whose width does not parse ("unparsable")
DurationReports == {"stream", "format", "none", "failed", "unparsable"}

\* a video file: whether the path exists, its picture size, frame rate,
\* length and size, and what ffprobe says of it
VideoFiles(durations, sizes, rates) ==
    [exists : {TRUE}, width : {640}, height : {480}, fps : rates,
     duration : durations, size_mb : sizes, reported : DurationReports]

\* the target video the handler downloaded (the download checked that the
\* file exists)
Videos == VideoFiles(Durations, Sizes, {24})

\* get_video_info raised instead of returning
InfoRaised(exc) ==
    [raised |-> exc, width |-> 0, height |-> 0, fps |-> 0, duration |-> 0,
     size_mb |-> 0]

\* a get_video_info whose except clause re-raises
get_video_info_no_fallback(v) ==
    IF ~v.exists THEN InfoRaised("FileNotFoundError")
    ELSE IF v.reported = "failed" THEN InfoRaised("FFmpegError")
    ELSE IF v.reported = "unparsable" THEN InfoRaised("ValueError")
    ELSE [raised |-> "none", width |-> v.width, height |-> v.height,
          fps |-> v.fps,
          duration |-> IF v.reported \in {"stream", "format"} THEN v.duration
                       ELSE 0,
          size_mb |-> v.size_mb]

\* get_video_info, video_processor.py:121-223. A path that does not exist
\* raises FileNotFoundError before the try (lines 138-139). Inside the try
\* the duration is 0.0 unless the stream entry or the container gives one
\* (lines 172-191); whatever is raised there (ffprobe failing, int() of a
\* field failing) ends in the except clause, which returns 1920x1080 at
\* 30.0 fps, duration 0.0 (lines 213-223); the size is os.path.getsize
get_video_info(v) ==
    IF ~v.exists THEN InfoRaised("FileNotFoundError")
    ELSE IF v.reported \in {"failed", "unparsable"}
    THEN [raised |-> "none", width |-> 1920, height |-> 1080, fps |-> 30,
          duration |-> 0, size_mb |-> v.size_mb]
    ELSE [raised |-> "none", width |-> v.width, height |-> v.height,
          fps |-> v.fps,
          duration |-> IF v.reported \in {"stream", "format"} THEN v.duration
                       ELSE 0,
          size_mb |-> v.size_mb]

validate_video_constraints(info) ==
    IF info.duration > max_video_duration THEN "VIDEO_TOO_LONG"
    ELSE IF info.size_mb > max_video_size_mb THEN "FILE_TOO_LARGE"
    ELSE "ok"

(***************************************************************************)
(* What engine.process_video does as seen by handler: it returns, or it    *)
(* raises at one of its stages. An error message is modelled by which of   *)
(* the words "source" and "face" its lower-case form holds, the only thing *)
(* handler.py:199-209 looks at. The message of a failed cv2.imread names   *)
(* the source path, <settings.temp_dir>/<job_id>/source.jpg, which holds   *)
(* "source" and, with the default temp_dir /tmp/face_swap_jobs (config.py: *)
(* 79-82), "face".                                                         *)
(***************************************************************************)
FatalStages == {"source_read", "source_face", "extract", "assemble", "audio"}

\* engine.py:141,153,157; video_processor.py:91,117: what each stage raises
raised_by(stage, path_has_face) ==
    CASE stage = "source_read" ->
            [kind |-> "ValueError",
             words |-> {"source"} \cup (IF path_has_face THEN {"face"} ELSE {})]
      [] stage = "source_face" ->
            [kind |-> "ValueError", words |-> {"source", "face"}]
      [] stage \in {"extract", "assemble"} ->
            [kind |-> "FFmpegError", words |-> {}]
      [] stage = "audio" -> [kind |-> "OSError", words |-> {}]
      [] OTHER -> [kind |-> "RuntimeError", words |-> {}]

ProcessOutcomes ==
    {[at |-> "done", kind |-> "ok", words |-> {}]}
    \cup
    {[at |-> st, kind |-> raised_by(st, f).kind, words |-> raised_by(st, f).words] :
        st \in FatalStages, f \in BOOLEAN}

\* a classification that looks for "face" alone first
process_error_code_face_first(out) ==
    IF out.kind = "ValueError"
    THEN IF "face" \in out.words THEN "NO_FACE_IN_VIDEO"
         ELSE IF "source" \in out.words THEN "NO_FACE_IN_SOURCE"
         ELSE "PROCESSING_ERROR"
    ELSE "PROCESSING_ERROR"

\* handler.py:199-209
process_error_code(out) ==
    IF out.kind = "ValueError"
    THEN IF "source" \in out.words /\ "face" \in out.words
         THEN "NO_FACE_IN_SOURCE"
         ELSE IF "face" \in out.words THEN "NO_FACE_IN_VIDEO"
         ELSE "PROCESSING_ERROR"
    ELSE "PROCESSING_ERROR"

(***************************************************************************)
(* Initial state of the process: handler.py is being imported, nothing is  *)
(* initialized, the main thread is about to call initialize().             *)
(***************************************************************************)
NoErr == [code |-> "none", cause |-> "none"]

InitH ==
    /\ callback_max_retries \in 0..MaxCallbackRetries
    /\ _initialized = FALSE
    /\ s3_service = 0
    /\ engine = 0
    /\ engines = [e \in EngineIds |-> NewEngine]
    /\ nEngines = 0
    /\ nS3 = 0
    /\ loads = [p \in Providers |-> 0]
    /\ pc = [t \in ThreadIds |-> IF t = MainThread THEN "init_check" ELSE "idle"]
    /\ self_engine = [t \in ThreadIds |-> 0]
    /\ job = [t \in ThreadIds |-> NoJob]
    /\ err = [t \in ThreadIds |-> NoErr]
    /\ response = [t \in ThreadIds |-> "none"]
    /\ cleanups = [t \in ThreadIds |-> 0]
    /\ job_dir = [t \in ThreadIds |-> FALSE]
    /\ uploaded = [t \in ThreadIds |-> FALSE]
    /\ sent = [t \in ThreadIds |-> {}]
    /\ target_too_long = [t \in ThreadIds |-> FALSE]
    /\ steps = [t \in ThreadIds |-> <<>>]
    /\ probed = [t \in ThreadIds |-> 0]
    /\ received = [t \in ThreadIds |-> {}]

\* one worker thread takes the jobs one after the other, any job
InitSerial ==
    /\ InitH
    /\ jobs_left = [t \in ThreadIds |-> IF t = 1 THEN MaxJobs ELSE 0]
    /\ job_space = Jobs
    /\ video_space = Videos

\* the worker threads run one handler invocation each, concurrently, on
\* jobs that validate
ConcurrentJobs ==
    {j \in Jobs : j.input_is_dict /\ j.job_id = "good" /\ j.fields = "ok"}

\* and on target videos within the duration limit
ConcurrentVideos == {v \in Videos : v.duration <= max_video_duration}

InitConcurrent ==
    /\ InitH
    /\ jobs_left = [t \in ThreadIds |-> IF t = MainThread THEN 0 ELSE 1]
    /\ job_space = ConcurrentJobs
    /\ video_space = ConcurrentVideos

(***************************************************************************)
(* initialize(), handler.py:52-103, step by step. Its caller is the module *)
(* (lines 345-349: a failure is logged, the process serves jobs anyway) or *)
(* handler (lines 138-144: a failure becomes ProcessingError INIT_FAILED). *)
(***************************************************************************)
initialize_returns(t) ==
    /\ pc' = [pc EXCEPT ![t] = IF t = MainThread THEN "serving" ELSE "validate"]
    /\ UNCHANGED err

initialize_raises(t) ==
    /\ pc' = [pc EXCEPT ![t] = IF t = MainThread THEN "serving" ELSE "except"]
    /\ err' = [err EXCEPT ![t] = IF t = MainThread THEN err[t]
                                 ELSE [code |-> "INIT_FAILED", cause |-> "initialize"]]

\* lines 59-61: the unguarded check of the flag
initialize_check(t) ==
    /\ pc[t] = "init_check"
    /\ IF _initialized
       THEN initialize_returns(t)
       ELSE pc' = [pc EXCEPT ![t] = "init_s3"] /\ UNCHANGED err
    /\ UNCHANGED target_too_long
    /\ UNCHANGED received
    /\ UNCHANGED <<steps, probed>>
    /\ UNCHANGED <<pvars, cvars, job_space, video_space, jobs_left>>
    /\ UNCHANGED <<callback_max_retries, _initialized, s3_service, engine, engines,
                   nEngines, nS3, loads, self_engine, job, response, cleanups,
                   job_dir, uploaded, sent>>

\* lines 85-89: s3_service = S3Service(), or it raises
initialize_s3(t) ==
    /\ pc[t] = "init_s3"
    /\ \/ /\ nS3' = nS3 + 1
          /\ s3_service' = nS3 + 1
          /\ pc' = [pc EXCEPT ![t] = "init_engine"]
          /\ UNCHANGED err
       \/ /\ initialize_raises(t)
          /\ UNCHANGED <<nS3, s3_service>>
    /\ UNCHANGED target_too_long
    /\ UNCHANGED received
    /\ UNCHANGED <<steps, probed>>
    /\ UNCHANGED <<pvars, cvars, job_space, video_space, jobs_left>>
    /\ UNCHANGED <<callback_max_retries, _initialized, engine, engines, nEngines,
                   loads, self_engine, job, response, cleanups, job_dir,
                   uploaded, sent>>

\* line 94: engine = FaceSwapEngine()
initialize_engine(t) ==
    /\ pc[t] = "init_engine"
    /\ nEngines' = nEngines + 1
    /\ engine' = nEngines + 1
    /\ engines' = [engines EXCEPT ![nEngines + 1] = NewEngine]
    /\ pc' = [pc EXCEPT ![t] = "load_call"]
    /\ UNCHANGED target_too_long
    /\ UNCHANGED received
    /\ UNCHANGED <<steps, probed>>
    /\ UNCHANGED <<pvars, cvars, job_space, video_space, jobs_left>>
    /\ UNCHANGED <<callback_max_retries, _initialized, s3_service, nS3, loads,
                   self_engine, job, err, response, cleanups, job_dir, uploaded,
                   sent>>

\* line 95: engine.load_models() is called on what the global names now
load_models_call(t) ==
    /\ pc[t] = "load_call"
    /\ self_engine' = [self_engine EXCEPT ![t] = engine]
    /\ pc' = [pc EXCEPT ![t] = "load_enter"]
    /\ UNCHANGED target_too_long
    /\ UNCHANGED received
    /\ UNCHANGED <<steps, probed>>
    /\ UNCHANGED <<pvars, cvars, job_space, video_space, jobs_left>>
    /\ UNCHANGED <<callback_max_retries, _initialized, s3_service, engine, engines,
                   nEngines, nS3, loads, job, err, response, cleanups, job_dir,
                   uploaded, sent>>

\* engine.py:83-86: with self._load_lock; if self._models_loaded: return
load_models_enter(t) ==
    /\ pc[t] = "load_enter"
    /\ LET e == self_engine[t] IN
       /\ engines[e]._load_lock = {}
       /\ IF engines[e]._models_loaded
          THEN /\ pc' = [pc EXCEPT ![t] = "init_set"]
               /\ UNCHANGED engines
          ELSE /\ pc' = [pc EXCEPT ![t] = "load_face_analyser"]
               /\ engines' = [engines EXCEPT ![e]._load_lock = {t}]
    /\ UNCHANGED target_too_long
    /\ UNCHANGED received
    /\ UNCHANGED <<steps, probed>>
    /\ UNCHANGED <<pvars, cvars, job_space, video_space, jobs_left>>
    /\ UNCHANGED <<callback_max_retries, _initialized, s3_service, engine,
                   nEngines, nS3, loads, self_engine, job, err, response,
                   cleanups, job_dir, uploaded, sent>>

\* engine.py:98-113: one provider is constructed, or its constructor raises and
\* the lock is released by the with statement; after the last one
\* engine.py:115 sets _models_loaded
NextLoad(p) ==
    CASE p = "face_analyser" -> "load_face_swapper"
      [] p = "face_swapper" -> "load_face_enhancer"
      [] p = "face_enhancer" -> "init_set"

load_models_provider(t, p) ==
    /\ pc[t] = "load_" \o p
    /\ LET e == self_engine[t] IN
       \/ /\ loads' = [loads EXCEPT ![p] = @ + 1]
          /\ engines' = [engines EXCEPT
                ![e] = [[@ EXCEPT ![p] = TRUE] EXCEPT
                          !._models_loaded = (p = "face_enhancer"),
                          !._load_lock = IF p = "face_enhancer" THEN {} ELSE {t}]]
          /\ pc' = [pc EXCEPT ![t] = NextLoad(p)]
          /\ UNCHANGED err
       \/ /\ engines' = [engines EXCEPT ![e]._load_lock = {}]
          /\ initialize_raises(t)
          /\ UNCHANGED loads
    /\ UNCHANGED target_too_long
    /\ UNCHANGED received
    /\ UNCHANGED <<steps, probed>>
    /\ UNCHANGED <<pvars, cvars, job_space, video_space, jobs_left>>
    /\ UNCHANGED <<callback_max_retries, _initialized, s3_service, engine,
                   nEngines, nS3, self_engine, job, response, cleanups, job_dir,
                   uploaded, sent>>

\* line 100: _initialized = True
initialize_set(t) ==
    /\ pc[t] = "init_set"
    /\ _initialized' = TRUE
    /\ initialize_returns(t)
    /\ UNCHANGED target_too_long
    /\ UNCHANGED received
    /\ UNCHANGED <<steps, probed>>
    /\ UNCHANGED <<pvars, cvars, job_space, video_space, jobs_left>>
    /\ UNCHANGED <<callback_max_retries, s3_service, engine, engines, nEngines,
                   nS3, loads, self_engine, job, response, cleanups, job_dir,
                   uploaded, sent>>

(***************************************************************************)
(* handler(job), handler.py:106-272, step by step.                         *)
(***************************************************************************)
\* what the calls handler makes may return or raise, over all that their
\* attempts may meet: s3_service.download, s3_service.upload of the
\* output_path that create_video wrote, CallbackService.send
DownloadResults ==
    {S3Service_download(S3DefaultMaxRetries, outs) :
        outs \in DownloadRuns(S3DefaultMaxRetries)}
UploadResults ==
    {S3Service_upload(TRUE, S3DefaultMaxRetries, outs) :
        outs \in UploadRuns(S3DefaultMaxRetries)}
SendResults(max_retries) ==
    {CallbackService_send(max_retries, outs) : outs \in PostRuns(max_retries)}

Raise(t, code, cause) ==
    /\ err' = [err EXCEPT ![t] = [code |-> code, cause |-> cause]]
    /\ pc' = [pc EXCEPT ![t] = "except"]

\* the step of handler that thread t just ran, and whether handler went on
\* after it (a CallbackError of the callback step is caught and logged,
\* lines 250-252)
Step(t, name, ok) ==
    steps' = [steps EXCEPT ![t] = Append(@, [step |-> name, ok |-> ok])]

Goto(t, where) ==
    /\ pc' = [pc EXCEPT ![t] = where]
    /\ UNCHANGED err

\* lines 123-124, before the try: job_input = job.get("input", {}) and
\* job_input.get("job_id", ...), an AttributeError when the input is no dict
handler_start(t) ==
    /\ pc[t] \in {"idle", "returned", "raised"}
    /\ pc[MainThread] = "serving"
    /\ jobs_left[t] > 0
    /\ jobs_left' = [jobs_left EXCEPT ![t] = @ - 1]
    /\ \E j \in job_space :
          /\ job' = [job EXCEPT ![t] = j]
          /\ pc' = [pc EXCEPT ![t] = IF j.input_is_dict THEN "mktemp" ELSE "raised"]
    /\ err' = [err EXCEPT ![t] = NoErr]
    /\ response' = [response EXCEPT ![t] = "none"]
    /\ cleanups' = [cleanups EXCEPT ![t] = 0]
    /\ job_dir' = [job_dir EXCEPT ![t] = FALSE]
    /\ uploaded' = [uploaded EXCEPT ![t] = FALSE]
    /\ sent' = [sent EXCEPT ![t] = {}]
    /\ target_too_long' = [target_too_long EXCEPT ![t] = FALSE]
    /\ steps' = [steps EXCEPT ![t] = <<>>]
    /\ probed' = [probed EXCEPT ![t] = 0]
    /\ received' = [received EXCEPT ![t] = {}]
    /\ UNCHANGED <<pvars, cvars, job_space, video_space>>
    /\ UNCHANGED <<callback_max_retries, _initialized, s3_service, engine, engines,
                   nEngines, nS3, loads, self_engine>>

\* line 127, before the try: TempStorage(job_id); temp_storage.py:32
\* os.path.join(settings.temp_dir, job_id) is a TypeError when job_id is no
\* string, else the directory is made
TempStorage_init(t) ==
    /\ pc[t] = "mktemp"
    /\ IF job[t].job_id = "nonstr"
       THEN Goto(t, "raised") /\ UNCHANGED job_dir
       ELSE Goto(t, "check_init") /\ job_dir' = [job_dir EXCEPT ![t] = TRUE]
    /\ UNCHANGED target_too_long
    /\ UNCHANGED received
    /\ UNCHANGED <<steps, probed>>
    /\ UNCHANGED <<pvars, cvars, job_space, video_space, jobs_left>>
    /\ UNCHANGED <<callback_max_retries, _initialized, s3_service, engine, engines,
                   nEngines, nS3, loads, self_engine, job, response, cleanups,
                   uploaded, sent>>

\* lines 138-141: if not _initialized: initialize()
handler_check_init(t) ==
    /\ pc[t] = "check_init"
    /\ Goto(t, IF _initialized THEN "validate" ELSE "init_check")
    /\ UNCHANGED target_too_long
    /\ UNCHANGED received
    /\ UNCHANGED <<steps, probed>>
    /\ UNCHANGED <<pvars, cvars, job_space, video_space, jobs_left>>
    /\ UNCHANGED <<callback_max_retries, _initialized, s3_service, engine, engines,
                   nEngines, nS3, loads, self_engine, job, response, cleanups,
                   job_dir, uploaded, sent>>

\* lines 148-151: validate_request
handler_validate(t) ==
    /\ pc[t] = "validate"
    /\ LET code == validate_request(job[t]) IN
       /\ Step(t, "validate", code = "ok")
       /\ IF code = "ok" THEN Goto(t, "dl_source")
          ELSE Raise(t, code, "ValidationError")
    /\ UNCHANGED target_too_long
    /\ UNCHANGED received
    /\ UNCHANGED probed
    /\ UNCHANGED <<pvars, cvars, job_space, video_space, jobs_left>>
    /\ UNCHANGED <<callback_max_retries, _initialized, s3_service, engine, engines,
                   nEngines, nS3, loads, self_engine, job, response, cleanups,
                   job_dir, uploaded, sent>>

\* a handler that goes on whatever became of the download
download_ends_unchecked(t, r, next) == Goto(t, next)

\* lines 156-162 and 167-173: the download returned and the next step
\* follows; or it raised, and an S3Error becomes S3_DOWNLOAD_ERROR while
\* anything else reaches the outer except Exception
download_ends(t, r, next) ==
    IF r.result = "ok" THEN Goto(t, next)
    ELSE IF r.result = "S3Error"
         THEN Raise(t, "S3_DOWNLOAD_ERROR", "S3Error")
         ELSE Raise(t, "INTERNAL_ERROR", r.result)

\* lines 156-162 and 167-173: s3_service.download
handler_download(t, here, next) ==
    /\ pc[t] = here
    /\ IF s3_service = 0
       THEN Raise(t, "INTERNAL_ERROR", "AttributeError") /\ Step(t, here, FALSE)
       ELSE \E r \in DownloadResults :
               /\ Step(t, here, r.result = "ok")
               /\ download_ends(t, r, next)
    /\ UNCHANGED target_too_long
    /\ UNCHANGED received
    /\ UNCHANGED probed
    /\ UNCHANGED <<pvars, cvars, job_space, video_space, jobs_left>>
    /\ UNCHANGED <<callback_max_retries, _initialized, s3_service, engine, engines,
                   nEngines, nS3, loads, self_engine, job, response, cleanups,
                   job_dir, uploaded, sent>>

\* lines 176-183: VideoProcessor() (RuntimeError without ffmpeg),
\* get_video_info, validate_video_constraints
handler_probe(t) ==
    /\ pc[t] = "probe"
    /\ \/ /\ Raise(t, "INTERNAL_ERROR", "RuntimeError")
          /\ Step(t, "probe", FALSE)
          /\ UNCHANGED <<target_too_long, probed>>
       \/ \E v \in video_space :
             LET code == validate_video_constraints(get_video_info(v)) IN
             /\ target_too_long' =
                   [target_too_long EXCEPT ![t] = v.duration > max_video_duration]
             /\ probed' = [probed EXCEPT ![t] = @ + 1]
             /\ Step(t, "probe", code = "ok")
             /\ IF code = "ok" THEN Goto(t, "process")
                ELSE Raise(t, code, "ValidationError")
    /\ UNCHANGED received
    /\ UNCHANGED <<pvars, cvars, job_space, video_space, jobs_left>>
    /\ UNCHANGED <<callback_max_retries, _initialized, s3_service, engine, engines,
                   nEngines, nS3, loads, self_engine, job, response, cleanups,
                   job_dir, uploaded, sent>>

\* engine.py:151-162: process_video calls get_video_info on the target once
\* it has read the source image and found a face in it
engine_probes(at) == IF at \in {"source_read", "source_face"} THEN 0 ELSE 1

\* lines 192-209: engine.process_video; engine.py:140-141 raises
\* RuntimeError when the engine's models are not loaded
handler_process(t) ==
    /\ pc[t] = "process"
    /\ IF engine = 0
       THEN /\ Raise(t, "PROCESSING_ERROR", "AttributeError")
            /\ Step(t, "process", FALSE)
            /\ UNCHANGED probed
       ELSE IF ~engines[engine]._models_loaded
       THEN /\ Raise(t, "PROCESSING_ERROR", "Models not loaded")
            /\ Step(t, "process", FALSE)
            /\ UNCHANGED probed
       ELSE \E out \in ProcessOutcomes :
               /\ Step(t, "process", out.kind = "ok")
               /\ probed' = [probed EXCEPT ![t] = @ + engine_probes(out.at)]
               /\ IF out.kind = "ok" THEN Goto(t, "upload")
                  ELSE Raise(t, process_error_code(out), out.at)
    /\ UNCHANGED target_too_long
    /\ UNCHANGED received
    /\ UNCHANGED <<pvars, cvars, job_space, video_space, jobs_left>>
    /\ UNCHANGED <<callback_max_retries, _initialized, s3_service, engine, engines,
                   nEngines, nS3, loads, self_engine, job, response, cleanups,
                   job_dir, uploaded, sent>>

\* lines 214-217: s3_service.upload
handler_upload(t) ==
    /\ pc[t] = "upload"
    /\ IF s3_service = 0
       THEN /\ Raise(t, "INTERNAL_ERROR", "AttributeError")
            /\ Step(t, "upload", FALSE)
            /\ UNCHANGED uploaded
       ELSE \E r \in UploadResults :
               /\ Step(t, "upload", r.result = "ok")
               /\ IF r.result = "ok"
                  THEN Goto(t, "respond") /\ uploaded' = [uploaded EXCEPT ![t] = TRUE]
                  ELSE /\ UNCHANGED uploaded
                       /\ IF r.result = "S3Error"
                          THEN Raise(t, "S3_UPLOAD_ERROR", "S3Error")
                          ELSE Raise(t, "INTERNAL_ERROR", r.result)
    /\ UNCHANGED target_too_long
    /\ UNCHANGED received
    /\ UNCHANGED probed
    /\ UNCHANGED <<pvars, cvars, job_space, video_space, jobs_left>>
    /\ UNCHANGED <<callback_max_retries, _initialized, s3_service, engine, engines,
                   nEngines, nS3, loads, self_engine, job, response, cleanups,
                   job_dir, sent>>

\* callback_service.py:62-70: the payload of a send that made a POST is
\* with the webhook
posted(statuses, status, r) ==
    IF r.posts > 0 THEN statuses \cup {status} ELSE statuses

\* a handler whose clause at line 250 lets a CallbackError through
CaughtAsCallbackError_nothing(raised) == FALSE

\* which exceptions the clause at line 250, except CallbackError, catches
CaughtAsCallbackError(raised) == raised = "CallbackError"

\* lines 223-253: the completed response is built, the success callback is
\* sent when request.callback_url is set, and the response is returned. What
\* send raises is logged if line 250 catches it and reaches the outer
\* except Exception (line 259) otherwise.
handler_respond(t) ==
    /\ pc[t] = "respond"
    /\ IF job[t].callback_url
       THEN /\ sent' = [sent EXCEPT ![t] = @ \cup {"completed"}]
            /\ \E r \in SendResults(callback_max_retries) :
                  /\ Step(t, "callback", r.result = "ok" \/ CaughtAsCallbackError(r.result))
                  /\ received' = [received EXCEPT ![t] = posted(@, "completed", r)]
                  /\ IF r.result = "ok" \/ CaughtAsCallbackError(r.result)
                     THEN /\ response' = [response EXCEPT ![t] = "completed"]
                          /\ Goto(t, "finally")
                     ELSE /\ Raise(t, "INTERNAL_ERROR", r.result)
                          /\ UNCHANGED response
       ELSE /\ response' = [response EXCEPT ![t] = "completed"]
            /\ Goto(t, "finally")
            /\ UNCHANGED <<sent, steps, received>>
    /\ UNCHANGED target_too_long
    /\ UNCHANGED probed
    /\ UNCHANGED <<pvars, cvars, job_space, video_space, jobs_left>>
    /\ UNCHANGED <<callback_max_retries, _initialized, s3_service, engine, engines,
                   nEngines, nS3, loads, self_engine, job, cleanups, job_dir,
                   uploaded>>

\* lines 255-267 and _build_error_response, lines 275-318: the failed
\* response, and the failure callback when job_input has a callback_url;
\* whatever send raises is caught (line 315)
_build_error_response(t) ==
    /\ pc[t] = "except"
    /\ response' = [response EXCEPT ![t] = "failed"]
    /\ sent' = [sent EXCEPT ![t] = IF job[t].callback_url
                                   THEN @ \cup {"failed"} ELSE @]
    /\ IF job[t].callback_url
       THEN \E r \in SendResults(callback_max_retries) :
               received' = [received EXCEPT ![t] = posted(@, "failed", r)]
       ELSE UNCHANGED received
    /\ Goto(t, "finally")
    /\ UNCHANGED target_too_long
    /\ UNCHANGED <<steps, probed>>
    /\ UNCHANGED <<pvars, cvars, job_space, video_space, jobs_left>>
    /\ UNCHANGED <<callback_max_retries, _initialized, s3_service, engine, engines,
                   nEngines, nS3, loads, self_engine, job, cleanups, job_dir,
                   uploaded>>

\* lines 269-272 and TempStorage.cleanup, temp_storage.py:61-70: the finally
\* clause; rmtree removes the directory, or fails and is logged
TempStorage_cleanup(t) ==
    /\ pc[t] = "finally"
    /\ cleanups' = [cleanups EXCEPT ![t] = @ + 1]
    /\ \E removed \in BOOLEAN :
          job_dir' = [job_dir EXCEPT ![t] = job_dir[t] /\ ~removed]
    /\ Goto(t, "returned")
    /\ UNCHANGED target_too_long
    /\ UNCHANGED received
    /\ UNCHANGED <<steps, probed>>
    /\ UNCHANGED <<pvars, cvars, job_space, video_space, jobs_left>>
    /\ UNCHANGED <<callback_max_retries, _initialized, s3_service, engine, engines,
                   nEngines, nS3, loads, self_engine, job, response, uploaded,
                   sent>>

(***************************************************************************)
(* FaceSwapEngine.process_video, engine.py:119-311.                        *)
(*                                                                         *)
(* Frame files. extract_frames writes "%06d.png" % n for n = 1, 2, ...; a  *)
(* file name is modelled by the digits it is made of, and names compare as *)
(* Python strings do (sorted() in video_processor.py:257).                 *)
(***************************************************************************)
RECURSIVE Digits(_)
Digits(n) == IF n < 10 THEN <<n>> ELSE Append(Digits(n \div 10), n % 10)

RECURSIVE ZeroPad(_, _)
ZeroPad(d, width) == IF Len(d) >= width THEN d ELSE ZeroPad(<<0>> \o d, width)

\* frame_pattern "%06d.png" applied to n
FrameName(n) == ZeroPad(Digits(n), FramePatternWidth)

RECURSIVE LexLess(_, _)
LexLess(a, b) ==
    IF a = <<>> THEN b # <<>>
    ELSE IF b = <<>> THEN FALSE
    ELSE IF Head(a) # Head(b) THEN Head(a) < Head(b)
    ELSE LexLess(Tail(a), Tail(b))

RECURSIVE sorted(_)
sorted(S) ==
    IF S = {} THEN <<>>
    ELSE LET m == CHOOSE x \in S : \A y \in S \ {x} : LexLess(x, y)
         IN <<m>> \o sorted(S \ {m})

Range(f) == {f[i] : i \in DOMAIN f}

\* video_processor.py:249-254: ffmpeg writes k frame files into the directory
ffmpeg_extract(dir, k) ==
    [n \in (DOMAIN dir) \cup {FrameName(i) : i \in 1..k} |->
        IF n \in {FrameName(i) : i \in 1..k} THEN <<>> ELSE dir[n]]

\* a listing that loses the last frame file
extract_frames_drop_last(dir) ==
    SubSeq(sorted(DOMAIN dir), 1, Cardinality(DOMAIN dir) - 1)

\* video_processor.py:256-260: sorted(glob.glob(output_dir/*.png))
extract_frames(dir) == sorted(DOMAIN dir)

\* video_processor.py:284 and 314-321: ffmpeg reads input_pattern
\* frames_dir/%06d.png from number 1 on, up to the first missing file
RECURSIVE ReadPattern(_, _)
ReadPattern(dir, n) ==
    IF FrameName(n) \in DOMAIN dir
    THEN <<FrameName(n)>> \o ReadPattern(dir, n + 1)
    ELSE <<>>

create_video_input(dir) == ReadPattern(dir, 1)

\* cv2.imwrite(path, frame) by the unit of work that was handed frame path
\* `mine`: the file at `path` is (re)written
imwrite(dir, path, mine) ==
    IF path \in DOMAIN dir
    THEN [dir EXCEPT ![path] = Append(@, mine)]
    ELSE [n \in (DOMAIN dir) \cup {path} |-> IF n = path THEN <<mine>> ELSE dir[n]]

(***************************************************************************)
(* Workers of the frame stage: 0 is the thread running process_video (it   *)
(* processes the frames itself when execution_threads is 1), 1..n are the  *)
(* threads of ThreadPoolExecutor(max_workers = n).                         *)
(***************************************************************************)
WorkerIds == 0..MaxThreads
PoolWorkers == 1..MaxThreads
NoPath == <<>>
NoResult == [frames_processed |-> -1, faces_detected |-> -1, fps |-> -1,
             duration |-> -1]

OptionsSet ==
    [execution_threads : 1..MaxThreads, many_faces : BOOLEAN,
     keep_audio : BOOLEAN, keep_fps : BOOLEAN]

\* the files process_video may be given as its target: a video of 24 or 30
\* frames per second, 5 or 10 seconds long, or a path where no file is
DefaultTarget ==
    [exists |-> TRUE, width |-> 640, height |-> 480, fps |-> 24,
     duration |-> 5, size_mb |-> 1, reported |-> "stream"]
TargetFiles ==
    VideoFiles({5, 10}, {1}, {24, 30}) \cup {[DefaultTarget EXCEPT !.exists = FALSE]}

\* get_video_info was not called yet
NoInfo == InfoRaised("unprobed")

\* a process_video that keeps the probed rate whatever the options say
output_fps_probed(opts, info) == info.fps

\* engine.py:270: fps = video_info['fps'] if options.keep_fps else 30.0
output_fps(opts, info) == IF opts.keep_fps THEN info.fps ELSE 30

Terminal == {"done", "skipped", "error"}

\* what a frame's processing may raise: subclasses of Exception
FrameErrors == {"cv2.error"}
ExceptionSubclasses ==
    {"cv2.error", "MemoryError", "ValueError", "RuntimeError", "FFmpegError"}

\* no restore_audio call was made
NoAudio == [probe |-> "none", ret |-> "none", mux_runs |-> 0, temp |-> FALSE]

PVFields(active) ==
    /\ models_loaded \in (IF active THEN BOOLEAN ELSE {FALSE})
    /\ options \in (IF active THEN OptionsSet
                    ELSE {[execution_threads |-> 1, many_faces |-> FALSE,
                           keep_audio |-> FALSE, keep_fps |-> FALSE]})
    /\ ppc = IF active THEN "start" ELSE "off"
    /\ raised_at = "none"
    /\ K = 0
    /\ frames_dir = <<>>
    /\ frame_paths = <<>>
    /\ total_frames = 0
    /\ queue = <<>>
    /\ futures = <<>>
    /\ fexc = <<>>
    /\ consumed = {}
    /\ seq_i = 0
    /\ wpc = [w \in WorkerIds |-> "idle"]
    /\ task = [w \in WorkerIds |-> NoPath]
    /\ unread = [w \in WorkerIds |-> FALSE]
    /\ faces_count = [w \in WorkerIds |-> 0]
    /\ calls = <<>>
    /\ incs = <<>>
    /\ progress_current = 0
    /\ progress_lock = {}
    /\ inc_tmp = [w \in WorkerIds |-> 0]
    /\ max_faces_detected = 0
    /\ faces_lock = {}
    /\ max_tmp = [w \in WorkerIds |-> 0]
    /\ assembled = <<>>
    /\ output_video = "none"
    /\ result = NoResult
    /\ audio = NoAudio
    /\ target_path \in (IF active THEN TargetFiles ELSE {DefaultTarget})
    /\ video_info = NoInfo
    /\ fps = 0
    /\ framerate = 0
    /\ detections = {}
    /\ reports = <<>>

\* process_video was called on an engine, with a fresh frames directory
InitPV == PVFields(TRUE)

(***************************************************************************)
(* The media tools. _run_ffmpeg (video_processor.py:55-96) gives its       *)
(* timeout argument, None by default, to subprocess.run and turns          *)
(* TimeoutExpired into FFmpegError; _run_ffprobe (lines 98-119) gives      *)
(* subprocess.run no timeout. With no timeout subprocess.run waits for the *)
(* child for as long as it lives.                                          *)
(***************************************************************************)
\* timeout = None
NoTimeout == 0

MediaToolSites == {"probe", "extract", "assemble", "audio_probe", "audio_mux"}

\* the timeout each invocation is made with: lines 110-114 (ffprobe), and
\* the _run_ffmpeg calls of lines 249-254, 314-321, 364-372, none of which
\* passes one
tool_timeout(site) == NoTimeout

ToolBehaviours == {"exits_0", "exits_nonzero", "hangs"}

\* lines 81-96, 110-119
run_media_tool(timeout, behaviour) ==
    IF behaviour = "hangs"
    THEN IF timeout = NoTimeout THEN "blocked" ELSE "FFmpegError"
    ELSE IF behaviour = "exits_nonzero" THEN "FFmpegError" ELSE "ok"

\* the invocation made at the site may never return
ToolBlocks(site) ==
    \E b \in ToolBehaviours : run_media_tool(tool_timeout(site), b) = "blocked"

PVRaise(stage) ==
    /\ ppc' = "raised"
    /\ raised_at' = stage

\* an entry that does not look at _models_loaded
pv_enter_unchecked ==
    /\ ppc = "start"
    /\ ppc' = "source_read"
    /\ UNCHANGED <<models_loaded, options, raised_at, K, frames_dir,
                   frame_paths, total_frames, queue, futures, fexc, consumed,
                   seq_i, wpc, task, unread, faces_count, calls, incs,
                   progress_current, progress_lock, inc_tmp,
                   max_faces_detected, faces_lock, max_tmp, assembled,
                   output_video, result>>
    /\ UNCHANGED audio
    /\ UNCHANGED ivars
    /\ UNCHANGED <<hvars, cvars>>

\* engine.py:140-141
pv_enter ==
    /\ ppc = "start"
    /\ IF models_loaded THEN ppc' = "source_read" /\ UNCHANGED raised_at
       ELSE PVRaise("models")
    /\ UNCHANGED <<models_loaded, options, K, frames_dir,
                   frame_paths, total_frames, queue, futures, fexc, consumed,
                   seq_i, wpc, task, unread, faces_count, calls, incs,
                   progress_current, progress_lock, inc_tmp,
                   max_faces_detected, faces_lock, max_tmp, assembled,
                   output_video, result>>
    /\ UNCHANGED audio
    /\ UNCHANGED ivars
    /\ UNCHANGED <<hvars, cvars>>

\* a source stage that notes its failure and goes on to the probe
pv_source_read_continues ==
    /\ ppc = "source_read"
    /\ ppc' = "probe"
    /\ \E st \in {"none", "source_read", "source_face"} : raised_at' = st
    /\ UNCHANGED <<models_loaded, options, K, frames_dir,
                   frame_paths, total_frames, queue, futures, fexc, consumed,
                   seq_i, wpc, task, unread, faces_count, calls, incs,
                   progress_current, progress_lock, inc_tmp,
                   max_faces_detected, faces_lock, max_tmp, assembled,
                   output_video, result>>
    /\ UNCHANGED audio
    /\ UNCHANGED ivars
    /\ UNCHANGED <<hvars, cvars>>

\* engine.py:149-159: cv2.imread of the source, get_one_face; ValueError
\* when the image cannot be read or holds no face
pv_source_read ==
    /\ ppc = "source_read"
    /\ \/ ppc' = "probe" /\ UNCHANGED raised_at
       \/ PVRaise("source_read")
       \/ PVRaise("source_face")
    /\ UNCHANGED <<models_loaded, options, K, frames_dir,
                   frame_paths, total_frames, queue, futures, fexc, consumed,
                   seq_i, wpc, task, unread, faces_count, calls, incs,
                   progress_current, progress_lock, inc_tmp,
                   max_faces_detected, faces_lock, max_tmp, assembled,
                   output_video, result>>
    /\ UNCHANGED audio
    /\ UNCHANGED ivars
    /\ UNCHANGED <<hvars, cvars>>

\* engine.py:161-167: get_video_info
pv_probe ==
    /\ ppc = "probe"
    /\ \/ LET info == get_video_info(target_path) IN
          IF info.raised = "none"
          THEN /\ video_info' = info
               /\ ppc' = "extract"
               /\ UNCHANGED raised_at
          ELSE PVRaise("probe") /\ UNCHANGED video_info
       \/ /\ target_path.exists
          /\ ToolBlocks("probe")
          /\ ppc' = "blocked"
          /\ UNCHANGED <<video_info, raised_at>>
    /\ UNCHANGED <<models_loaded, options, K, frames_dir,
                   frame_paths, total_frames, queue, futures, fexc, consumed,
                   seq_i, wpc, task, unread, faces_count, calls, incs,
                   progress_current, progress_lock, inc_tmp,
                   max_faces_detected, faces_lock, max_tmp, assembled,
                   output_video, result>>
    /\ UNCHANGED audio
    /\ UNCHANGED <<target_path, fps, framerate, detections, reports>>
    /\ UNCHANGED <<hvars, cvars>>

\* engine.py:169-184: extract_frames (an FFmpegError is not caught), then
\* total_frames, ProgressCallback(total_frames), max_faces_detected = 0
pv_extract ==
    /\ ppc = "extract"
    /\ \/ /\ PVRaise("extract")
          /\ UNCHANGED <<K, frames_dir, frame_paths, total_frames, futures, fexc,
                            calls, incs, progress_current,
                            max_faces_detected>>
       \/ /\ ToolBlocks("extract")
          /\ ppc' = "blocked"
          /\ UNCHANGED <<K, frames_dir, frame_paths, total_frames, futures, fexc,
                            calls, incs, progress_current,
                            max_faces_detected, raised_at>>
       \/ \E k \in 0..MaxFrames :
             LET dir == ffmpeg_extract(frames_dir, k)
                 paths == extract_frames(dir)
             IN /\ K' = k
                /\ frames_dir' = dir
                /\ frame_paths' = paths
                /\ total_frames' = Len(paths)
                /\ futures' = [p \in Range(paths) |-> "pending"]
                /\ fexc' = [p \in Range(paths) |-> "none"]
                /\ calls' = [p \in Range(paths) |-> 0]
                /\ incs' = [p \in Range(paths) |-> 0]
                /\ progress_current' = 0
                /\ max_faces_detected' = 0
                /\ ppc' = "transform"
                /\ UNCHANGED raised_at
    /\ UNCHANGED <<models_loaded, options, queue, consumed, seq_i,
                   wpc, task, unread, faces_count, progress_lock, inc_tmp,
                   faces_lock, max_tmp, assembled, output_video, result>>
    /\ UNCHANGED audio
    /\ UNCHANGED ivars
    /\ UNCHANGED <<hvars, cvars>>

\* engine.py:233-239 and 254-256: the pool is made and every frame path is
\* submitted, or the sequential loop is entered
pv_dispatch ==
    /\ ppc = "transform"
    /\ IF options.execution_threads > 1
       THEN ppc' = "pool" /\ queue' = frame_paths
       ELSE /\ ppc' = IF total_frames = 0 THEN "assemble" ELSE "seq"
            /\ UNCHANGED queue
    /\ UNCHANGED <<models_loaded, options, raised_at, K, frames_dir,
                   frame_paths, total_frames, futures, fexc, consumed, seq_i,
                   wpc, task, unread, faces_count, calls, incs,
                   progress_current, progress_lock, inc_tmp,
                   max_faces_detected, faces_lock, max_tmp, assembled,
                   output_video, result>>
    /\ UNCHANGED audio
    /\ UNCHANGED ivars
    /\ UNCHANGED <<hvars, cvars>>


(***************************************************************************)
(* process_single_frame(frame_path), engine.py:186-230, run by worker w.   *)
(***************************************************************************)
\* a process_single_frame that goes on with a frame it could not read
process_single_frame_begin_no_skip(w, path) ==
    /\ task' = [task EXCEPT ![w] = path]
    /\ calls' = [calls EXCEPT ![path] = @ + 1]
    /\ futures' = [futures EXCEPT ![path] = "running"]
    /\ \E n \in 0..(IF options.many_faces THEN MaxFaces ELSE 1), u \in BOOLEAN :
          /\ unread' = [unread EXCEPT ![w] = u]
          /\ faces_count' = [faces_count EXCEPT ![w] = n]
          /\ detections' = detections \cup {<<path, n>>}
          /\ wpc' = [wpc EXCEPT ![w] = IF n > 0 THEN "max_acq" ELSE "write"]

\* lines 190-203: cv2.imread; a frame that cannot be read goes straight to
\* progress.increment(); else the faces are detected (get_many_faces, or
\* get_one_face giving at most one)
process_single_frame_begin(w, path) ==
    /\ task' = [task EXCEPT ![w] = path]
    /\ calls' = [calls EXCEPT ![path] = @ + 1]
    /\ futures' = [futures EXCEPT ![path] = "running"]
    /\ \/ /\ unread' = [unread EXCEPT ![w] = TRUE]
          /\ faces_count' = [faces_count EXCEPT ![w] = 0]
          /\ wpc' = [wpc EXCEPT ![w] = "inc_acq"]
          /\ UNCHANGED detections
       \/ \E n \in 0..(IF options.many_faces THEN MaxFaces ELSE 1) :
             /\ unread' = [unread EXCEPT ![w] = FALSE]
             /\ faces_count' = [faces_count EXCEPT ![w] = n]
             /\ detections' = detections \cup {<<path, n>>}
             /\ wpc' = [wpc EXCEPT ![w] = IF n > 0 THEN "max_acq" ELSE "write"]

\* a pool thread takes the next submitted frame path
pool_take(w) ==
    /\ w <= options.execution_threads
    /\ wpc[w] = "idle"
    /\ queue # <<>>
    /\ process_single_frame_begin(w, Head(queue))
    /\ queue' = Tail(queue)
    /\ UNCHANGED <<models_loaded, options, ppc, raised_at, K, frames_dir,
                   frame_paths, total_frames, fexc, consumed, seq_i, incs,
                   progress_current, progress_lock, inc_tmp,
                   max_faces_detected, faces_lock, max_tmp, assembled,
                   output_video, result>>
    /\ UNCHANGED audio
    /\ UNCHANGED <<target_path, video_info, fps, framerate, reports>>
    /\ UNCHANGED <<hvars, cvars>>

\* a loop that walks frame_paths from its end
seq_frame_reversed(paths, i) == paths[Len(paths) - i]

\* engine.py:256: for frame_path in frame_paths, the frame of iteration i
\* (counted from 0)
seq_frame(paths, i) == paths[i + 1]

\* engine.py:256-258: the sequential loop calls process_single_frame
seq_call ==
    /\ ppc = "seq"
    /\ wpc[0] = "idle"
    /\ seq_i < total_frames
    /\ futures[seq_frame(frame_paths, seq_i)] = "pending"
    /\ process_single_frame_begin(0, seq_frame(frame_paths, seq_i))
    /\ UNCHANGED <<models_loaded, options, ppc, raised_at, K, frames_dir,
                   frame_paths, total_frames, queue, fexc, consumed, seq_i,
                   incs, progress_current, progress_lock, inc_tmp,
                   max_faces_detected, faces_lock, max_tmp, assembled,
                   output_video, result>>
    /\ UNCHANGED audio
    /\ UNCHANGED <<target_path, video_info, fps, framerate, reports>>
    /\ UNCHANGED <<hvars, cvars>>

\* a with block that takes no lock
faces_lock_absent == TRUE

\* faces_lock, a threading.Lock: free when nobody holds it
faces_lock_free == faces_lock = {}

Max(a, b) == IF a >= b THEN a ELSE b

\* engine.py:206-208: with faces_lock: the maximum is read ...
faces_max_acquire(w) ==
    /\ wpc[w] = "max_acq"
    /\ faces_lock_free
    /\ faces_lock' = faces_lock \cup {w}
    /\ max_tmp' = [max_tmp EXCEPT ![w] = max_faces_detected]
    /\ wpc' = [wpc EXCEPT ![w] = "max_rel"]
    /\ UNCHANGED <<models_loaded, options, ppc, raised_at, K, frames_dir,
                   frame_paths, total_frames, queue, futures, fexc, consumed,
                   seq_i, task, unread, faces_count, calls, incs,
                   progress_current, progress_lock, inc_tmp,
                   max_faces_detected, assembled, output_video, result>>
    /\ UNCHANGED audio
    /\ UNCHANGED ivars
    /\ UNCHANGED <<hvars, cvars>>

\* ... and max(max_faces_detected, faces_count) is stored
faces_max_release(w) ==
    /\ wpc[w] = "max_rel"
    /\ max_faces_detected' = Max(max_tmp[w], faces_count[w])
    /\ faces_lock' = faces_lock \ {w}
    /\ wpc' = [wpc EXCEPT ![w] = "write"]
    /\ UNCHANGED <<models_loaded, options, ppc, raised_at, K, frames_dir,
                   frame_paths, total_frames, queue, futures, fexc, consumed,
                   seq_i, task, unread, faces_count, calls, incs,
                   progress_current, progress_lock, inc_tmp, max_tmp,
                   assembled, output_video, result>>
    /\ UNCHANGED audio
    /\ UNCHANGED ivars
    /\ UNCHANGED <<hvars, cvars>>

\* a write under the name of the next frame in completion order
imwrite_by_completion(w) == FrameName(progress_current + 1)

\* the path cv2.imwrite is given at line 225
imwrite_path(w) == task[w]

\* engine.py:210-225: swap, enhance, cv2.imwrite(frame_path, frame); any of
\* them may raise, which ends the unit of work with that exception
frame_write(w) ==
    /\ wpc[w] = "write"
    /\ \/ \E e \in FrameErrors :
             /\ futures' = [futures EXCEPT ![task[w]] = "error"]
             /\ fexc' = [fexc EXCEPT ![task[w]] = e]
             /\ wpc' = [wpc EXCEPT ![w] = "idle"]
             /\ task' = [task EXCEPT ![w] = NoPath]
             /\ unread' = [unread EXCEPT ![w] = FALSE]
             /\ faces_count' = [faces_count EXCEPT ![w] = 0]
             /\ max_tmp' = [max_tmp EXCEPT ![w] = 0]
             /\ UNCHANGED frames_dir
       \/ /\ frames_dir' = imwrite(frames_dir, imwrite_path(w), task[w])
          /\ wpc' = [wpc EXCEPT ![w] = "inc_acq"]
          /\ UNCHANGED <<futures, fexc, task, unread, faces_count, max_tmp>>
    /\ UNCHANGED <<models_loaded, options, ppc, raised_at, K, frame_paths,
                   total_frames, queue, consumed, seq_i, calls, incs, progress_current, progress_lock,
                   inc_tmp, max_faces_detected, faces_lock, assembled, output_video, result>>
    /\ UNCHANGED audio
    /\ UNCHANGED ivars
    /\ UNCHANGED <<hvars, cvars>>

\* an increment that takes no lock
ProgressCallback_unlocked == TRUE

\* ProgressCallback._lock, a threading.Lock: free when nobody holds it
ProgressCallback_lock_free == progress_lock = {}

\* ProgressCallback.increment, engine.py:44-46: with self._lock, current is read ...
increment_acquire(w) ==
    /\ wpc[w] = "inc_acq"
    /\ ProgressCallback_lock_free
    /\ progress_lock' = progress_lock \cup {w}
    /\ inc_tmp' = [inc_tmp EXCEPT ![w] = progress_current]
    /\ wpc' = [wpc EXCEPT ![w] = "inc_rel"]
    /\ UNCHANGED <<models_loaded, options, ppc, raised_at, K, frames_dir,
                   frame_paths, total_frames, queue, futures, fexc, consumed,
                   seq_i, task, unread, faces_count, calls, incs,
                   progress_current, max_faces_detected, faces_lock, max_tmp,
                   assembled, output_video, result>>
    /\ UNCHANGED audio
    /\ UNCHANGED ivars
    /\ UNCHANGED <<hvars, cvars>>

\* ... current + amount is stored and the lock released; process_single_frame
\* returns (line 194 or 230)
increment_release(w) ==
    /\ wpc[w] = "inc_rel"
    /\ progress_current' = inc_tmp[w] + 1
    /\ progress_lock' = progress_lock \ {w}
    /\ incs' = [incs EXCEPT ![task[w]] = @ + 1]
    /\ futures' = [futures EXCEPT ![task[w]] = IF unread[w] THEN "skipped" ELSE "done"]
    /\ wpc' = [wpc EXCEPT ![w] = "idle"]
    /\ task' = [task EXCEPT ![w] = NoPath]
    /\ unread' = [unread EXCEPT ![w] = FALSE]
    /\ faces_count' = [faces_count EXCEPT ![w] = 0]
    /\ inc_tmp' = [inc_tmp EXCEPT ![w] = 0]
    /\ max_tmp' = [max_tmp EXCEPT ![w] = 0]
    /\ UNCHANGED <<models_loaded, options, ppc, raised_at, K, frames_dir,
                   frame_paths, total_frames, queue, fexc, consumed, seq_i,
                   calls, max_faces_detected, faces_lock, assembled,
                   output_video, result>>
    /\ UNCHANGED audio
    /\ UNCHANGED ivars
    /\ UNCHANGED <<hvars, cvars>>


(***************************************************************************)
(* The thread running process_video during the frame stage.                *)
(***************************************************************************)
\* a clause that catches ValueError only
except_ValueError(e) == e = "ValueError"

\* which exceptions the clauses except Exception (lines 244 and 259) catch
except_Exception(e) == e \in ExceptionSubclasses

\* a loop that ends at the first future yielded
as_completed_first == consumed # {} \/ frame_paths = <<>>

\* the for loop over as_completed(futures) ends when every future was yielded
as_completed_exhausted == consumed = Range(frame_paths)

AllFuturesDone == \A p \in DOMAIN futures : futures[p] \in Terminal

\* engine.py:249 and 263: the condition of the progress line, on the count
\* the loop looks at
report_due(n, total) == n % ProgressEvery = 0 \/ n = total

\* the log after the progress check of an iteration
logged(n, total) == IF report_due(n, total) THEN Append(reports, n) ELSE reports

\* engine.py:241-253: as_completed yields a finished future; future.result()
\* re-raises what the unit of work raised; caught, it is logged; then the
\* progress check reads progress.current
pool_as_completed(p) ==
    /\ ppc = "pool"
    /\ p \in DOMAIN futures
    /\ p \notin consumed
    /\ futures[p] \in Terminal
    /\ consumed' = consumed \cup {p}
    /\ IF futures[p] = "error" /\ ~except_Exception(fexc[p])
       THEN ppc' = "unwinding" /\ UNCHANGED reports
       ELSE /\ reports' = logged(progress_current, total_frames)
            /\ UNCHANGED ppc
    /\ UNCHANGED <<models_loaded, options, raised_at, K, frames_dir,
                   frame_paths, total_frames, queue, futures, fexc, seq_i,
                   wpc, task, unread, faces_count, calls, incs,
                   progress_current, progress_lock, inc_tmp,
                   max_faces_detected, faces_lock, max_tmp, assembled,
                   output_video, result>>
    /\ UNCHANGED audio
    /\ UNCHANGED <<target_path, video_info, fps, framerate, detections>>
    /\ UNCHANGED <<hvars, cvars>>

\* engine.py:235: leaving the with block, normally or by an exception;
\* ThreadPoolExecutor.__exit__ is shutdown(wait=True)
pool_exit ==
    /\ ppc \in {"pool", "unwinding"}
    /\ IF ppc = "pool"
       THEN as_completed_exhausted /\ ppc' = "assemble" /\ UNCHANGED raised_at
       ELSE AllFuturesDone /\ PVRaise("transform")
    /\ UNCHANGED <<models_loaded, options, K, frames_dir,
                   frame_paths, total_frames, queue, futures, fexc, consumed,
                   seq_i, wpc, task, unread, faces_count, calls, incs,
                   progress_current, progress_lock, inc_tmp,
                   max_faces_detected, faces_lock, max_tmp, assembled,
                   output_video, result>>
    /\ UNCHANGED audio
    /\ UNCHANGED ivars
    /\ UNCHANGED <<hvars, cvars>>

\* engine.py:256-267: one iteration of the sequential loop ends
seq_iter_end ==
    /\ ppc = "seq"
    /\ seq_i < total_frames
    /\ futures[seq_frame(frame_paths, seq_i)] \in Terminal
    /\ LET p == seq_frame(frame_paths, seq_i) IN
       IF futures[p] = "error" /\ ~except_Exception(fexc[p])
       THEN PVRaise("transform") /\ UNCHANGED <<seq_i, reports>>
       ELSE /\ seq_i' = seq_i + 1
            /\ reports' = logged(seq_i + 1, total_frames)
            /\ ppc' = IF seq_i + 1 = total_frames THEN "assemble" ELSE "seq"
            /\ UNCHANGED raised_at
    /\ UNCHANGED <<models_loaded, options, K, frames_dir,
                   frame_paths, total_frames, queue, futures, fexc, consumed,
                   wpc, task, unread, faces_count, calls, incs,
                   progress_current, progress_lock, inc_tmp,
                   max_faces_detected, faces_lock, max_tmp, assembled,
                   output_video, result>>
    /\ UNCHANGED audio
    /\ UNCHANGED <<target_path, video_info, fps, framerate, detections>>
    /\ UNCHANGED <<hvars, cvars>>

\* a process_video that restores the audio whatever the options say
audio_stage_always(opts) == "audio"

\* engine.py:281-287: restore_audio is called only if options.keep_audio
audio_stage(opts) == IF opts.keep_audio THEN "audio" ELSE "cleanup"

\* engine.py:269-279: create_video (an FFmpegError is not caught; ffmpeg
\* fails when the first file of the input pattern is missing)
pv_create_video ==
    /\ ppc = "assemble"
    /\ fps' = output_fps(options, video_info)
    /\ framerate' = fps'
    /\ \/ PVRaise("assemble") /\ UNCHANGED <<assembled, output_video>>
       \/ /\ ToolBlocks("assemble")
          /\ ppc' = "blocked"
          /\ UNCHANGED <<assembled, output_video, raised_at>>
       \/ /\ create_video_input(frames_dir) # <<>>
          /\ assembled' = create_video_input(frames_dir)
          /\ output_video' = "video"
          /\ ppc' = audio_stage(options)
          /\ UNCHANGED raised_at
    /\ UNCHANGED <<models_loaded, options, K, frames_dir,
                   frame_paths, total_frames, queue, futures, fexc, consumed,
                   seq_i, wpc, task, unread, faces_count, calls, incs,
                   progress_current, progress_lock, inc_tmp,
                   max_faces_detected, faces_lock, max_tmp, result>>
    /\ UNCHANGED audio
    /\ UNCHANGED <<target_path, video_info, detections, reports>>
    /\ UNCHANGED <<hvars, cvars>>

(***************************************************************************)
(* VideoProcessor.restore_audio, video_processor.py:325-390. The probe     *)
(* (_run_ffprobe, lines 98-119) prints "audio", prints nothing, raises     *)
(* FFmpegError on a non-zero exit, or raises what subprocess.run raises    *)
(* when ffprobe cannot be started (OSError). The mux (_run_ffmpeg, then    *)
(* os.replace) succeeds, raises FFmpegError, raises another Exception, or  *)
(* os.replace fails after ffmpeg wrote the temp file; a failed mux may     *)
(* leave a partial temp file.                                              *)
(***************************************************************************)
ProbeOutcomes == {"audio", "", "FFmpegError", "OSError"}
MuxOutcomes == {"ok", "FFmpegError", "Exception", "replace_fails"}

\* a check that takes any probe output for an audio stream
has_audio_unchecked(audio_check) == TRUE

\* line 352: not (not audio_check or "audio" not in audio_check)
has_audio(audio_check) == audio_check # "" /\ audio_check = "audio"

restore_audio(probe, mux, partial) ==
    IF probe = "OSError"
    THEN \* lines 343-358: only FFmpegError is caught
         [probe |-> probe, ret |-> "raised", mux_runs |-> 0, temp |-> FALSE]
    ELSE IF probe = "FFmpegError" \/ ~has_audio(probe)
    THEN [probe |-> probe, ret |-> "False", mux_runs |-> 0, temp |-> FALSE]
    ELSE IF mux = "ok"
    THEN \* lines 364-377: os.replace moved the temp file onto the target
         [probe |-> probe, ret |-> "True", mux_runs |-> 1, temp |-> FALSE]
    ELSE \* lines 379-390: the temp file, if there, is removed
         LET temp_exists == IF mux = "replace_fails" THEN TRUE ELSE partial
             removed == temp_exists   \* if os.path.exists: os.remove
         IN  [probe |-> probe, ret |-> "False", mux_runs |-> 1,
              temp |-> temp_exists /\ ~removed]

\* engine.py:281-287: restore_audio; what it raises is not caught
pv_restore_audio ==
    /\ ppc = "audio"
    /\ \/ \E probe \in ProbeOutcomes, mux \in MuxOutcomes, partial \in BOOLEAN :
             LET r == restore_audio(probe, mux, partial) IN
             /\ audio' = r
             /\ output_video' = IF r.ret = "True" THEN "video+audio"
                                 ELSE output_video
             /\ IF r.ret = "raised"
                THEN PVRaise("audio")
                ELSE ppc' = "cleanup" /\ UNCHANGED raised_at
       \/ /\ ToolBlocks("audio_probe") \/ ToolBlocks("audio_mux")
          /\ ppc' = "blocked"
          /\ UNCHANGED <<audio, output_video, raised_at>>
    /\ UNCHANGED <<models_loaded, options, K, frames_dir,
                   frame_paths, total_frames, queue, futures, fexc, consumed,
                   seq_i, wpc, task, unread, faces_count, calls, incs,
                   progress_current, progress_lock, inc_tmp,
                   max_faces_detected, faces_lock, max_tmp, assembled,
                   result>>
    /\ UNCHANGED ivars
    /\ UNCHANGED <<hvars, cvars>>

\* engine.py:289-294: cleanup_frames removes the directory, or fails and logs
pv_cleanup_frames ==
    /\ ppc = "cleanup"
    /\ \E removed \in BOOLEAN :
          frames_dir' = IF removed THEN <<>> ELSE frames_dir
    /\ ppc' = "return"
    /\ UNCHANGED <<models_loaded, options, raised_at, K, frame_paths,
                   total_frames, queue, futures, fexc, consumed, seq_i, wpc,
                   task, unread, faces_count, calls, incs,
                   progress_current, progress_lock, inc_tmp,
                   max_faces_detected, faces_lock, max_tmp, assembled,
                   output_video, result>>
    /\ UNCHANGED audio
    /\ UNCHANGED ivars
    /\ UNCHANGED <<hvars, cvars>>

\* engine.py:296-311: the ProcessingResultData
pv_return ==
    /\ ppc = "return"
    /\ result' = [frames_processed |-> total_frames,
                  faces_detected |-> max_faces_detected,
                  fps |-> fps,
                  duration |-> video_info.duration]
    /\ ppc' = "done"
    /\ UNCHANGED <<models_loaded, options, raised_at, K, frames_dir,
                   frame_paths, total_frames, queue, futures, fexc, consumed,
                   seq_i, wpc, task, unread, faces_count, calls, incs,
                   progress_current, progress_lock, inc_tmp,
                   max_faces_detected, faces_lock, max_tmp, assembled,
                   output_video>>
    /\ UNCHANGED audio
    /\ UNCHANGED ivars
    /\ UNCHANGED <<hvars, cvars>>


(***************************************************************************)
(* One call of S3Service.download or S3Service.upload by any caller.       *)
(***************************************************************************)
S3Calls ==
    UNION {[op : {"download"}, max_retries : {n}, outcomes : DownloadRuns(n),
            local_exists : {TRUE}] : n \in 0..MaxS3Retries}
    \cup
    UNION {[op : {"upload"}, max_retries : {n}, outcomes : UploadRuns(n),
            local_exists : BOOLEAN] : n \in 0..MaxS3Retries}

NoS3Call == [op |-> "none", max_retries |-> 0, outcomes |-> <<>>,
             local_exists |-> FALSE]
NoS3Ret == [result |-> "none", code |-> "None",
            original_error |-> NoS3Error.original_error,
            attempts |-> 0, sleeps |-> <<>>, file |-> "none"]

S3Fields(active) ==
    /\ s3_pc = IF active THEN "called" ELSE "off"
    /\ s3_call \in (IF active THEN S3Calls ELSE {NoS3Call})
    /\ s3_ret = NoS3Ret

\* s3_service.py:48-118
S3Service_download_call ==
    /\ s3_pc = "called"
    /\ s3_call.op = "download"
    /\ s3_ret' = S3Service_download(s3_call.max_retries, s3_call.outcomes)
    /\ s3_pc' = "returned"
    /\ UNCHANGED s3_call
    /\ UNCHANGED <<hvars, pvars, evars, bvars, xvars>>

\* s3_service.py:120-193
S3Service_upload_call ==
    /\ s3_pc = "called"
    /\ s3_call.op = "upload"
    /\ s3_ret' = S3Service_upload(s3_call.local_exists, s3_call.max_retries,
                                  s3_call.outcomes)
    /\ s3_pc' = "returned"
    /\ UNCHANGED s3_call
    /\ UNCHANGED <<hvars, pvars, evars, bvars, xvars>>

(***************************************************************************)
(* One call of CallbackService.send, with the max_retries of the settings  *)
(* or of the caller.                                                       *)
(***************************************************************************)
SendCalls ==
    UNION {[max_retries : {n}, outcomes : PostRuns(n)] : n \in 0..MaxCallbackRetries}

NoSendCall == [max_retries |-> 0, outcomes |-> <<>>]
NoSendRet == [result |-> "none", posts |-> 0, sleeps |-> <<>>]

CbFields(active) ==
    /\ cb_pc = IF active THEN "called" ELSE "off"
    /\ cb_call \in (IF active THEN SendCalls ELSE {NoSendCall})
    /\ cb_ret = NoSendRet

\* callback_service.py:30-103
CallbackService_send_call ==
    /\ cb_pc = "called"
    /\ cb_ret' = CallbackService_send(cb_call.max_retries, cb_call.outcomes)
    /\ cb_pc' = "returned"
    /\ UNCHANGED cb_call
    /\ UNCHANGED <<hvars, pvars, evars, svars, xvars>>

(***************************************************************************)
(* process_single_frame on a frame cv2.imread could read, engine.py:196-   *)
(* 230, with the provider calls it makes. A detected face is its place in  *)
(* the list app.get returns and its bbox[0]; a frame is the faces swapped  *)
(* into it, in order, and whether it was enhanced.                         *)
(***************************************************************************)
FaceXs == 0..MaxFaces
ProviderOutcomes == {"ok", "None", "raises"}

RECURSIVE SeqsUpTo(_, _)
SeqsUpTo(S, n) ==
    IF n = 0 THEN {<<>>}
    ELSE LET shorter == SeqsUpTo(S, n - 1) IN
         shorter \cup {Append(q, x) : q \in {r \in shorter : Len(r) = n - 1}, x \in S}

\* what app.get finds in a frame
Detected(xs) == [i \in 1..Len(xs) |-> [id |-> i, x |-> xs[i]]]

FrameCalls ==
    [opts : [many_faces : BOOLEAN, face_enhancer : BOOLEAN],
     xs : SeqsUpTo(FaceXs, MaxFaces),
     detect : {"ok", "raises"},
     swaps : [1..MaxFaces -> ProviderOutcomes],
     enhance : ProviderOutcomes]

NewFrame == [swapped |-> <<>>, enhanced |-> FALSE]
NoFrameCall ==
    [opts |-> [many_faces |-> FALSE, face_enhancer |-> FALSE], xs |-> <<>>,
     detect |-> "ok", swaps |-> [i \in 1..MaxFaces |-> "ok"], enhance |-> "ok"]
NoFrameRet ==
    [raised |-> FALSE, faces_count |-> 0, targets |-> <<>>, frame |-> NewFrame,
     log |-> <<>>]

\* face_analyser.py:98-122: app.get, [] when it raises
FaceAnalyser_detect_faces(xs, outcome) ==
    IF outcome = "raises" THEN <<>> ELSE Detected(xs)

\* a get_one_face that returns the first face of the list
get_one_face_first(faces) == <<faces[1]>>

\* face_analyser.py:62-83: min(faces, key=bbox[0]), the first of the faces
\* with the smallest bbox[0]; called on a list that is not empty
get_one_face(faces) ==
    LET leftmost == {i \in DOMAIN faces : \A j \in DOMAIN faces : faces[i].x <= faces[j].x}
        first == CHOOSE i \in leftmost : \A j \in leftmost : i <= j
    IN <<faces[first]>>

\* engine.py:196-201: the faces process_single_frame goes on with
target_faces(opts, faces) ==
    IF opts.many_faces THEN faces
    ELSE IF faces = <<>> THEN <<>>
    ELSE get_one_face(faces)

\* a swap whose try block is missing
FaceSwapper_swap_unguarded(frame, face, outcome) ==
    IF outcome = "raises" THEN [raised |-> TRUE, frame |-> frame]
    ELSE IF outcome = "None" THEN [raised |-> FALSE, frame |-> frame]
    ELSE [raised |-> FALSE,
          frame |-> [frame EXCEPT !.swapped = Append(@, face.id)]]

\* face_swapper.py:85-151: model.get; original_frame when it returns None
\* or raises
FaceSwapper_swap(frame, face, outcome) ==
    IF outcome \in {"raises", "None"} THEN [raised |-> FALSE, frame |-> frame]
    ELSE [raised |-> FALSE,
          frame |-> [frame EXCEPT !.swapped = Append(@, face.id)]]

\* face_enhancer.py:118-159: self.enhancer.enhance; the frame it was given
\* when that returns None or raises
FaceEnhancer_enhance(frame, outcome) ==
    IF outcome \in {"raises", "None"} THEN frame
    ELSE [frame EXCEPT !.enhanced = TRUE]

\* an enhancement asked for is made whether or not a face was detected
enhance_due_always(opts, faces) == opts.face_enhancer

\* engine.py:221: if options.face_enhancer and target_faces
enhance_due(opts, faces) == opts.face_enhancer /\ faces # <<>>

\* engine.py:210-218: for target_face in target_faces: frame = swap(...);
\* a swap that raises ends the loop
RECURSIVE swap_loop(_, _, _, _)
swap_loop(st, faces, outcomes, i) ==
    IF i > Len(faces) \/ st.raised THEN st
    ELSE LET r == FaceSwapper_swap(st.frame, faces[i], outcomes[faces[i].id]) IN
         swap_loop([raised |-> r.raised, frame |-> r.frame,
                    log |-> Append(st.log, "swap")], faces, outcomes, i + 1)

\* engine.py:196-230
process_single_frame(call) ==
    LET faces == target_faces(call.opts,
                              FaceAnalyser_detect_faces(call.xs, call.detect))
        sw == swap_loop([raised |-> FALSE, frame |-> NewFrame, log |-> <<>>],
                        faces, call.swaps, 1)
        due == enhance_due(call.opts, faces)
    IN IF sw.raised
       THEN [raised |-> TRUE, faces_count |-> Len(faces), targets |-> faces,
             frame |-> sw.frame, log |-> sw.log]
       ELSE [raised |-> FALSE, faces_count |-> Len(faces), targets |-> faces,
             frame |-> IF due THEN FaceEnhancer_enhance(sw.frame, call.enhance)
                       ELSE sw.frame,
             log |-> sw.log \o (IF due THEN <<"enhance">> ELSE <<>>)
                            \o <<"imwrite", "increment">>]

(***************************************************************************)
(* The scratch directories, services/temp_storage.py, as handler uses      *)
(* them (handler.py:124-127, 159-196, 212-216, 269-272). A path is the     *)
(* sequence of its components below the root; a job_id is the sequence of  *)
(* the components it spells: "" spells none, "a/b" spells two.             *)
(***************************************************************************)
Invocations == 1..NInvocations

\* config.py:79-82
temp_dir == <<"tmp", "face_swap_jobs">>

\* the job ids of the inputs: "", "a", "b" and "a/b"
JobIdPaths == {<<>>, <<"a">>, <<"b">>, <<"a", "b">>}

IsPrefix(p, q) == Len(p) <= Len(q) /\ SubSeq(q, 1, Len(p)) = p

\* temp_storage.py:32: os.path.join(settings.temp_dir, job_id)
job_dir_of(job_id) == temp_dir \o job_id

\* temp_storage.py:38-48
get_path(job_id, filename) == job_dir_of(job_id) \o <<filename>>

\* temp_storage.py:35: Path(job_dir).mkdir(parents=True, exist_ok=True)
mkdir_parents(dirs, d) == dirs \cup {SubSeq(d, 1, k) : k \in 1..Len(d)}

\* shutil.rmtree: the directory and all that is below it
rmtree_dirs(dirs, d) == {x \in dirs : ~IsPrefix(d, x)}
rmtree_files(files, d) == {f \in files : ~IsPrefix(d, f.path)}

\* a file is written: what was at its path is replaced
write_file(files, path, i) ==
    {f \in files : f.path # path} \cup {[path |-> path, writer |-> i]}

file_exists(files, path) == \E f \in files : f.path = path

TsFields(active) ==
    /\ sc_pc = [i \in Invocations |-> IF active THEN "start" ELSE "off"]
    /\ sc_job_id \in (IF active THEN [Invocations -> JobIdPaths]
                       ELSE {[i \in Invocations |-> <<>>]})
    /\ sc_dirs = {temp_dir}
    /\ sc_files = {}

\* handler.py:127: TempStorage(job_id)
TempStorage_mkdir(i) ==
    /\ sc_pc[i] = "start"
    /\ sc_dirs' = mkdir_parents(sc_dirs, job_dir_of(sc_job_id[i]))
    /\ sc_pc' = [sc_pc EXCEPT ![i] = "dl_source"]
    /\ UNCHANGED <<sc_job_id, sc_files>>
    /\ UNCHANGED <<hvars, pvars, evars, svars, bvars, fvars, rvars>>

\* handler.py:159-175: s3_service.download(location, get_path(filename));
\* the download fails, or writes the file when its directory is there
scratch_download(i, here, filename, next) ==
    /\ sc_pc[i] = here
    /\ \/ /\ sc_pc' = [sc_pc EXCEPT ![i] = "finally"]
          /\ UNCHANGED sc_files
       \/ /\ job_dir_of(sc_job_id[i]) \in sc_dirs
          /\ sc_files' = write_file(sc_files, get_path(sc_job_id[i], filename), i)
          /\ sc_pc' = [sc_pc EXCEPT ![i] = next]
    /\ UNCHANGED <<sc_job_id, sc_dirs>>
    /\ UNCHANGED <<hvars, pvars, evars, svars, bvars, fvars, rvars>>

\* handler.py:176-209: the probe of target.mp4 and process_video, which
\* reads source.jpg and target.mp4 and writes output.mp4; it fails, or it
\* finds its inputs and writes its output
scratch_process(i) ==
    /\ sc_pc[i] = "process"
    /\ \/ /\ sc_pc' = [sc_pc EXCEPT ![i] = "finally"]
          /\ UNCHANGED sc_files
       \/ /\ job_dir_of(sc_job_id[i]) \in sc_dirs
          /\ file_exists(sc_files, get_path(sc_job_id[i], "source.jpg"))
          /\ file_exists(sc_files, get_path(sc_job_id[i], "target.mp4"))
          /\ sc_files' = write_file(sc_files, get_path(sc_job_id[i], "output.mp4"), i)
          /\ sc_pc' = [sc_pc EXCEPT ![i] = "upload"]
    /\ UNCHANGED <<sc_job_id, sc_dirs>>
    /\ UNCHANGED <<hvars, pvars, evars, svars, bvars, fvars, rvars>>

\* handler.py:212-240: the upload of output.mp4 and the callback; done or
\* failed, the finally clause is next
scratch_upload(i) ==
    /\ sc_pc[i] = "upload"
    /\ sc_pc' = [sc_pc EXCEPT ![i] = "finally"]
    /\ UNCHANGED <<sc_job_id, sc_dirs, sc_files>>
    /\ UNCHANGED <<hvars, pvars, evars, svars, bvars, fvars, rvars>>

\* handler.py:269-272 and temp_storage.py:61-70: cleanup; rmtree removes
\* the tree at job_dir, or fails and is logged
TempStorage_rmtree(i) ==
    /\ sc_pc[i] = "finally"
    /\ sc_pc' = [sc_pc EXCEPT ![i] = "returned"]
    /\ \/ /\ job_dir_of(sc_job_id[i]) \in sc_dirs
          /\ sc_dirs' = rmtree_dirs(sc_dirs, job_dir_of(sc_job_id[i]))
          /\ sc_files' = rmtree_files(sc_files, job_dir_of(sc_job_id[i]))
       \/ UNCHANGED <<sc_dirs, sc_files>>
    /\ UNCHANGED sc_job_id
    /\ UNCHANGED <<hvars, pvars, evars, svars, bvars, fvars, rvars>>

(***************************************************************************)
(* The boto3 clients of one S3Service, s3_service.py:38-46 and 212-222.    *)
(* download and upload ask _get_client_for_region for a client in every    *)
(* attempt (lines 77 and 153), check_exists once (line 206).               *)
(***************************************************************************)
DefaultRegion == "aws_default_region"
Regions == {DefaultRegion, "region_a", "region_b"}
ClientUsers == {"download", "upload", "check_exists"}

\* S3Service.__init__: self.client, the first client built
SelfClient == 1

\* a _get_client_for_region that keeps the clients it built
get_client_for_region_cached(clients, region) ==
    IF \E c \in DOMAIN clients : clients[c] = region
    THEN [client |-> CHOOSE c \in DOMAIN clients : clients[c] = region,
          clients |-> clients]
    ELSE [client |-> Len(clients) + 1, clients |-> Append(clients, region)]

\* s3_service.py:212-222: self.client for the default region, else a new
\* boto3.client
get_client_for_region(clients, region) ==
    IF region = DefaultRegion
    THEN [client |-> SelfClient, clients |-> clients]
    ELSE [client |-> Len(clients) + 1, clients |-> Append(clients, region)]

RgFields(active) ==
    /\ rg_pc = IF active THEN "ready" ELSE "off"
    /\ rg_clients = IF active THEN <<DefaultRegion>> ELSE <<>>
    /\ rg_calls = <<>>

\* one attempt of download or upload, or one check_exists, on a location
\* of any region
S3Service_use_client ==
    /\ rg_pc = "ready"
    /\ Len(rg_calls) < MaxClientUses
    /\ \E op \in ClientUsers, region \in Regions :
          LET got == get_client_for_region(rg_clients, region) IN
          /\ rg_clients' = got.clients
          /\ rg_calls' = Append(rg_calls, [op |-> op, region |-> region,
                                            client |-> got.client])
    /\ UNCHANGED rg_pc
    /\ UNCHANGED <<hvars, pvars, evars, svars, bvars, fvars, tvars>>

FrFields(active) ==
    /\ fr_pc = IF active THEN "called" ELSE "off"
    /\ fr_call \in (IF active THEN FrameCalls ELSE {NoFrameCall})
    /\ fr_ret = NoFrameRet

XFields == FrFields(FALSE) /\ RgFields(FALSE) /\ TsFields(FALSE)

process_single_frame_call ==
    /\ fr_pc = "called"
    /\ fr_ret' = process_single_frame(fr_call)
    /\ fr_pc' = "returned"
    /\ UNCHANGED fr_call
    /\ UNCHANGED <<hvars, pvars, evars, svars, bvars, rvars, tvars>>

(***************************************************************************)
(* FaceEnhancer.enhance, core/face_enhancer.py:118-159, called by the      *)
(* frame workers of the jobs the process runs (engine.py:222). _semaphore  *)
(* is an attribute of the class (line 35), created once at import.         *)
(***************************************************************************)
EnhanceCallers == 1..MaxThreads
Enhancers == 1..MaxEnhancers
EnhanceFrames == {"None", "empty", "frame"}
EnhancerOutcomes == {"restored", "None", "raises"}
\* the class FaceEnhancer as the owner of an attribute; its objects are 1..
FaceEnhancerClass == 0
SemaphoreOwners == {FaceEnhancerClass} \cup Enhancers

\* a _semaphore that each object creates for itself
semaphore_of_instance(inst) == inst

\* face_enhancer.py:35,137: self._semaphore finds the class attribute
semaphore_of(inst) == FaceEnhancerClass

EnhFields(active) ==
    /\ _semaphore = [o \in SemaphoreOwners |-> 1]
    /\ epc = [t \in EnhanceCallers |-> IF active THEN "idle" ELSE "off"]
    /\ eself = [t \in EnhanceCallers |-> 0]
    /\ eframe = [t \in EnhanceCallers |-> "None"]
    /\ eout = [t \in EnhanceCallers |-> "none"]
    /\ eret = [t \in EnhanceCallers |-> "none"]

\* engine.py:222: a thread calls enhance on the enhancer of its job's engine
enhance_call(t) ==
    /\ epc[t] = "idle"
    /\ \E inst \in Enhancers, f \in EnhanceFrames :
          /\ eself' = [eself EXCEPT ![t] = inst]
          /\ eframe' = [eframe EXCEPT ![t] = f]
    /\ epc' = [epc EXCEPT ![t] = "check"]
    /\ eout' = [eout EXCEPT ![t] = "none"]
    /\ eret' = [eret EXCEPT ![t] = "none"]
    /\ UNCHANGED _semaphore
    /\ UNCHANGED <<hvars, pvars, svars, bvars, xvars>>

\* face_enhancer.py:128-134
enhance_check(t) ==
    /\ epc[t] = "check"
    /\ IF eframe[t] \in {"None", "empty"}
       THEN /\ epc' = [epc EXCEPT ![t] = "idle"]
            /\ eret' = [eret EXCEPT ![t] = eframe[t]]
       ELSE /\ epc' = [epc EXCEPT ![t] = "acquire"]
            /\ UNCHANGED eret
    /\ UNCHANGED <<_semaphore, eself, eframe, eout>>
    /\ UNCHANGED <<hvars, pvars, svars, bvars, xvars>>

\* face_enhancer.py:137: `with self._semaphore` blocks until a permit is free
semaphore_acquire(t) ==
    /\ epc[t] = "acquire"
    /\ _semaphore[semaphore_of(eself[t])] > 0
    /\ _semaphore' = [_semaphore EXCEPT ![semaphore_of(eself[t])] = @ - 1]
    /\ epc' = [epc EXCEPT ![t] = "inside"]
    /\ UNCHANGED <<eself, eframe, eout, eret>>
    /\ UNCHANGED <<hvars, pvars, svars, bvars, xvars>>

\* face_enhancer.py:140-145: self.enhancer.enhance returns or raises
enhancer_enhance(t) ==
    /\ epc[t] = "inside"
    /\ \E o \in EnhancerOutcomes : eout' = [eout EXCEPT ![t] = o]
    /\ epc' = [epc EXCEPT ![t] = "exit"]
    /\ UNCHANGED <<_semaphore, eself, eframe, eret>>
    /\ UNCHANGED <<hvars, pvars, svars, bvars, xvars>>

\* face_enhancer.py:137,147-159: the with block is left, by return or by
\* exception, and enhance returns the restored image or the frame
semaphore_release(t) ==
    /\ epc[t] = "exit"
    /\ _semaphore' = [_semaphore EXCEPT ![semaphore_of(eself[t])] = @ + 1]
    /\ eret' = [eret EXCEPT ![t] = IF eout[t] = "restored" THEN "restored"
                                    ELSE eframe[t]]
    /\ epc' = [epc EXCEPT ![t] = "idle"]
    /\ UNCHANGED <<eself, eframe, eout>>
    /\ UNCHANGED <<hvars, pvars, svars, bvars, xvars>>

(***************************************************************************)
(* The specifications                                                      *)
(***************************************************************************)
\* handler.py: import, then handler invocations on the worker threads
Init == InitSerial /\ PVFields(FALSE) /\ EnhFields(FALSE) /\ S3Fields(FALSE) /\ CbFields(FALSE) /\ XFields

Next ==
    \/ \E t \in ThreadIds : initialize_check(t)
    \/ \E t \in ThreadIds : initialize_s3(t)
    \/ \E t \in ThreadIds : initialize_engine(t)
    \/ \E t \in ThreadIds : load_models_call(t)
    \/ \E t \in ThreadIds : load_models_enter(t)
    \/ \E t \in ThreadIds, p \in Providers : load_models_provider(t, p)
    \/ \E t \in ThreadIds : initialize_set(t)
    \/ \E t \in Workers : handler_start(t)
    \/ \E t \in Workers : TempStorage_init(t)
    \/ \E t \in Workers : handler_check_init(t)
    \/ \E t \in Workers : handler_validate(t)
    \/ \E t \in Workers : handler_download(t, "dl_source", "dl_target")
    \/ \E t \in Workers : handler_download(t, "dl_target", "probe")
    \/ \E t \in Workers : handler_probe(t)
    \/ \E t \in Workers : handler_process(t)
    \/ \E t \in Workers : handler_upload(t)
    \/ \E t \in Workers : handler_respond(t)
    \/ \E t \in Workers : _build_error_response(t)
    \/ \E t \in Workers : TempStorage_cleanup(t)

Spec == Init /\ [][Next]_vars

\* handler.py with concurrent handler invocations
InitConc == InitConcurrent /\ PVFields(FALSE) /\ EnhFields(FALSE) /\ S3Fields(FALSE) /\ CbFields(FALSE) /\ XFields

SpecConc == InitConc /\ [][Next]_vars

\* one run of process_video; the handler's process is not involved
InitPVOnly ==
    /\ InitPV
    /\ target_path = DefaultTarget
    /\ options.keep_fps
    /\ InitH
    /\ callback_max_retries = 0
    /\ jobs_left = [t \in ThreadIds |-> 0]
    /\ job_space = {}
    /\ video_space = {}
    /\ EnhFields(FALSE) /\ S3Fields(FALSE) /\ CbFields(FALSE) /\ XFields

NextPV ==
    \/ pv_enter
    \/ pv_source_read
    \/ pv_probe
    \/ pv_extract
    \/ pv_dispatch
    \/ \E w \in PoolWorkers : pool_take(w)
    \/ seq_call
    \/ \E w \in WorkerIds : faces_max_acquire(w)
    \/ \E w \in WorkerIds : faces_max_release(w)
    \/ \E w \in WorkerIds : frame_write(w)
    \/ \E w \in WorkerIds : increment_acquire(w)
    \/ \E w \in WorkerIds : increment_release(w)
    \/ \E p \in DOMAIN futures : pool_as_completed(p)
    \/ pool_exit
    \/ seq_iter_end
    \/ pv_create_video
    \/ pv_restore_audio
    \/ pv_cleanup_frames
    \/ pv_return

SpecPV == InitPVOnly /\ [][NextPV]_vars

\* one run of process_video whose threads keep running: a step that can be
\* taken is taken
SpecPVLive == InitPVOnly /\ [][NextPV]_vars /\ WF_vars(NextPV)

\* one run of process_video on any target file, its frames processed on
\* the calling thread and one face per frame looked for
InitPVTarget ==
    /\ InitPV
    /\ options.execution_threads = 1
    /\ ~options.many_faces
    /\ InitH
    /\ callback_max_retries = 0
    /\ jobs_left = [t \in ThreadIds |-> 0]
    /\ job_space = {}
    /\ video_space = {}
    /\ EnhFields(FALSE) /\ S3Fields(FALSE) /\ CbFields(FALSE) /\ XFields

\* with execution_threads = 1 no thread pool is made (engine.py:254-267)
NextPVSeq ==
    \/ pv_enter
    \/ pv_source_read
    \/ pv_probe
    \/ pv_extract
    \/ pv_dispatch
    \/ seq_call
    \/ faces_max_acquire(0)
    \/ faces_max_release(0)
    \/ frame_write(0)
    \/ increment_acquire(0)
    \/ increment_release(0)
    \/ seq_iter_end
    \/ pv_create_video
    \/ pv_restore_audio
    \/ pv_cleanup_frames
    \/ pv_return

SpecPVTarget == InitPVTarget /\ [][NextPVSeq]_vars

\* the handler's process and process_video at rest
AtRest ==
    /\ InitH
    /\ callback_max_retries = 0
    /\ jobs_left = [t \in ThreadIds |-> 0]
    /\ job_space = {}
    /\ video_space = {}
    /\ PVFields(FALSE)

\* the enhance calls of the process's threads
InitEnh == AtRest /\ EnhFields(TRUE) /\ S3Fields(FALSE) /\ CbFields(FALSE) /\ XFields

NextEnh ==
    \/ \E t \in EnhanceCallers : enhance_call(t)
    \/ \E t \in EnhanceCallers : enhance_check(t)
    \/ \E t \in EnhanceCallers : semaphore_acquire(t)
    \/ \E t \in EnhanceCallers : enhancer_enhance(t)
    \/ \E t \in EnhanceCallers : semaphore_release(t)

SpecEnh == InitEnh /\ [][NextEnh]_vars

\* one call of S3Service.download or S3Service.upload
InitS3 == AtRest /\ EnhFields(FALSE) /\ S3Fields(TRUE) /\ CbFields(FALSE) /\ XFields

NextS3 ==
    \/ S3Service_download_call
    \/ S3Service_upload_call

SpecS3 == InitS3 /\ [][NextS3]_vars

\* one call of CallbackService.send
InitCb == AtRest /\ EnhFields(FALSE) /\ S3Fields(FALSE) /\ CbFields(TRUE) /\ XFields

NextCb == CallbackService_send_call

\* one S3Service and the calls made on it
InitRegion ==
    /\ AtRest /\ EnhFields(FALSE) /\ S3Fields(FALSE) /\ CbFields(FALSE)
    /\ FrFields(FALSE) /\ RgFields(TRUE) /\ TsFields(FALSE)

NextRegion == S3Service_use_client

SpecRegion == InitRegion /\ [][NextRegion]_vars

\* one call of process_single_frame
InitFrame ==
    /\ AtRest /\ EnhFields(FALSE) /\ S3Fields(FALSE) /\ CbFields(FALSE)
    /\ FrFields(TRUE) /\ RgFields(FALSE) /\ TsFields(FALSE)

NextFrame == process_single_frame_call

SpecFrame == InitFrame /\ [][NextFrame]_vars

SpecCb == InitCb /\ [][NextCb]_vars

\* handler invocations running concurrently, each on a job_id of its own
\* input
InitScratch ==
    /\ AtRest /\ EnhFields(FALSE) /\ S3Fields(FALSE) /\ CbFields(FALSE)
    /\ FrFields(FALSE) /\ RgFields(FALSE) /\ TsFields(TRUE)

NextScratch ==
    \/ \E i \in Invocations : TempStorage_mkdir(i)
    \/ \E i \in Invocations : scratch_download(i, "dl_source", "source.jpg", "dl_target")
    \/ \E i \in Invocations : scratch_download(i, "dl_target", "target.mp4", "process")
    \/ \E i \in Invocations : scratch_process(i)
    \/ \E i \in Invocations : scratch_upload(i)
    \/ \E i \in Invocations : TempStorage_rmtree(i)

SpecScratch == InitScratch /\ [][NextScratch]_vars

(***************************************************************************)
(* Properties of handler (checked under Spec)                              *)
(***************************************************************************)
\* the handler invocation of thread t is over: it returned or it raised
HandlerExited(t) == pc[t] \in {"returned", "raised"}

\* C1: for every invocation of handler, on every exit path,
\* TempStorage.cleanup is invoked exactly once, and it is invoked after the
\* job's outcome has been determined.
C1_CleanupExactlyOnce ==
    \A t \in Workers :
        /\ cleanups[t] <= 1
        /\ HandlerExited(t) => cleanups[t] = 1
        /\ cleanups[t] > 0 => response[t] \in {"completed", "failed"}

\* C2: every invocation of handler, for any job input and any failure of any
\* step, returns exactly one response whose status is "completed" or "failed"
\* and never raises; a failed response carries an error code and a message.
C2_AlwaysOneResponse ==
    \A t \in Workers :
        /\ pc[t] # "raised"
        /\ pc[t] = "returned" => response[t] \in {"completed", "failed"}
        /\ response[t] = "failed" => err[t].code # "none" /\ err[t].cause # "none"

\* C3: if media processing and the upload of the result both succeeded,
\* handler returns status "completed" whatever happens during callback
\* delivery and for every configured callback retry maximum.
C3_CallbackNeverFails ==
    \A t \in Workers :
        uploaded[t] /\ HandlerExited(t) => response[t] = "completed"

(***************************************************************************)
(* Properties of initialization (checked under SpecConc)                   *)
(***************************************************************************)
\* C10: over any interleaving of concurrent handler invocations and calls of
\* initialize, the providers (face analyser, swapper, enhancer) are loaded at
\* most once per process: at most one FaceSwapEngine of the process ever
\* completes load_models, and the last provider is constructed at most once.
C10_ProvidersLoadedOnce ==
    /\ Cardinality({e \in EngineIds : engines[e]._models_loaded}) <= 1
    /\ loads["face_enhancer"] <= 1

(***************************************************************************)
(* Properties of process_video (checked under SpecPV)                      *)
(***************************************************************************)
\* the frame-transformation stage is over and process_video goes on
AfterTransform == ppc \in {"assemble", "audio", "cleanup", "return", "done"}

Pooled == options.execution_threads > 1

RECURSIVE SumOver(_, _)
SumOver(f, S) ==
    IF S = {} THEN 0
    ELSE LET x == CHOOSE y \in S : TRUE IN f[x] + SumOver(f, S \ {x})

\* C4: at the end of the frame-transformation stage the progress counter
\* equals exactly K, the number of extracted frames, for every parallelism
\* degree and any mix of frames that succeed, cannot be read, or raise.
C4_ProgressReachesK == AfterTransform => progress_current = K

\* C5: under every interleaving of the frame workers the progress counter is
\* monotonically non-decreasing, never exceeds K, and each frame contributes
\* at most one increment: the counter is the number of increment calls made,
\* none lost and none duplicated.
C5_ProgressCounter ==
    /\ [](/\ progress_current <= K
          /\ \A p \in DOMAIN incs : incs[p] <= 1
          /\ progress_current = SumOver(incs, DOMAIN incs))
    /\ [][progress_current' >= progress_current]_vars

\* a pooled run in which every one of two frames has made its increment
C5_Witness ==
    /\ Pooled
    /\ K = 2
    /\ progress_current = 2
    /\ \A p \in DOMAIN incs : incs[p] = 1

\* C6: create_video starts only after every extracted frame has reached a
\* terminal state; no frame is being processed by a worker when assembly,
\* audio restoration or frame cleanup runs, for every parallelism degree.
C6_AssemblyAfterAllFrames ==
    AfterTransform =>
        /\ \A p \in Range(frame_paths) : futures[p] \in Terminal
        /\ \A w \in WorkerIds : wpc[w] = "idle" /\ task[w] = NoPath
        /\ queue = <<>>

\* a pooled run of two frames is about to remove the frames directory
C6_Witness ==
    /\ Pooled
    /\ K = 2
    /\ ppc = "cleanup"
    /\ output_video # "none"

\* C7: when processing one frame raises an error the error is caught, every
\* other frame is still processed to a terminal state, and process_video
\* continues to assembly and returns a result, in sequential and in pooled
\* mode.
C7_FrameErrorAbsorbed ==
    /\ raised_at # "transform"
    /\ ppc # "unwinding"
    /\ AfterTransform =>
          \A p \in Range(frame_paths) : calls[p] = 1 /\ futures[p] \in Terminal
    /\ ppc = "done" => result # NoResult

\* a pooled run returned a result although one frame raised, and the other
\* frame was processed
C7_Witness ==
    /\ Pooled
    /\ ppc = "done"
    /\ result.frames_processed = K
    /\ \E p, q \in DOMAIN futures : futures[p] = "error" /\ futures[q] = "done"

\* the same in sequential mode
C7_WitnessSequential ==
    /\ ~Pooled
    /\ ppc = "done"
    /\ result.frames_processed = K
    /\ \E p, q \in DOMAIN futures : futures[p] = "error" /\ futures[q] = "done"

\* C8: exactly K frame paths are returned by extract_frames, each is handed
\* to process_single_frame exactly once, the frames directory read by
\* create_video holds exactly those K frame files, and frames_processed in
\* the result equals K.
C8_FrameCountPreserved ==
    /\ Len(frame_paths) = K
    /\ Cardinality(Range(frame_paths)) = K
    /\ total_frames = K
    /\ \A p \in DOMAIN calls : calls[p] <= 1
    /\ AfterTransform => \A p \in Range(frame_paths) : calls[p] = 1
    /\ ppc \in {"transform", "pool", "seq", "assemble", "audio", "cleanup"}
          => DOMAIN frames_dir = Range(frame_paths)
    /\ output_video # "none" => Len(assembled) = K
    /\ ppc = "done" => result.frames_processed = K

\* a run of a two-frame video returned its result
C8_Witness ==
    /\ K = 2
    /\ ppc = "done"
    /\ Len(assembled) = 2
    /\ result.frames_processed = 2

\* C9: the sequence of frames consumed by assembly is the sequence
\* established at extraction (sorted by zero-padded file name) for every
\* parallelism degree and completion order; each frame file is rewritten in
\* place under its own name, by the unit of work that owns it and no other.
C9_OrderAndOwnership ==
    /\ \A i \in DOMAIN frame_paths : frame_paths[i] = FrameName(i)
    /\ \A i, j \in DOMAIN frame_paths :
          i < j => LexLess(frame_paths[i], frame_paths[j])
    /\ output_video # "none" => assembled = frame_paths
    /\ frames_dir # <<>> => DOMAIN frames_dir = Range(frame_paths)
    /\ \A n \in DOMAIN frames_dir :
          /\ Len(frames_dir[n]) <= 1
          /\ \A i \in DOMAIN frames_dir[n] : frames_dir[n][i] = n

\* a pooled run assembled its two frames, both rewritten by their workers
C9_Witness ==
    /\ Pooled
    /\ K = 2
    /\ output_video # "none"
    /\ assembled = frame_paths
    /\ \A n \in Range(frame_paths) :
          n \in DOMAIN frames_dir /\ frames_dir[n] = <<n>>

C11_WitnessHandler ==
    \E t \in Workers :
        /\ err[t].cause = "Models not loaded"
        /\ pc[t] = "returned"
        /\ response[t] = "failed"

\* the threads inside self.enhancer.enhance, and those holding a permit
InsideEnhancer == {t \in EnhanceCallers : epc[t] = "inside"}
PermitHolders == {t \in EnhanceCallers : epc[t] \in {"inside", "exit"}}

\* C12: at most one thread is inside the enhancer's enhance call at any
\* moment, whichever FaceEnhancer object and job each caller belongs to and
\* however many callers there are; the permit is given back after every
\* call, one that raises included: the free permits plus the callers still
\* in the with block always make one, and a caller outside the block holds
\* none.
C12_OneThreadInEnhancer ==
    /\ Cardinality(InsideEnhancer) <= 1
    /\ Cardinality(PermitHolders) <= 1
    /\ _semaphore[semaphore_of(1)] + Cardinality(PermitHolders) = 1
    /\ \A t \in EnhanceCallers :
          epc[t] = "idle" /\ eout[t] = "raises" =>
             /\ t \notin PermitHolders
             /\ eret[t] = eframe[t]

\* a call on one enhancer raised and returned, and since then another
\* caller got inside the call of a different enhancer
C12_Witness ==
    \E t, u \in EnhanceCallers :
        /\ epc[t] = "idle" /\ eout[t] = "raises"
        /\ epc[u] = "inside"
        /\ eself[u] # eself[t]

\* one caller is inside while another, on a different enhancer, waits
C12_WitnessWaiting ==
    \E t, u \in EnhanceCallers :
        /\ epc[t] = "inside"
        /\ epc[u] = "acquire"
        /\ eself[u] # eself[t]

(***************************************************************************)
(* Properties of S3Service.download / upload (checked under SpecS3)        *)
(***************************************************************************)
S3Returned(op) == s3_pc = "returned" /\ s3_call.op = op

\* the attempts of the call that fail, and whether all of them do
FailedAttempts ==
    {i \in 1..s3_call.max_retries :
        s3_call.outcomes[i] \notin {"ok", "empty"}}
EveryAttemptFails == FailedAttempts = 1..s3_call.max_retries

\* the first attempt that does not fail (there is one)
FirstSuccess ==
    CHOOSE i \in 1..s3_call.max_retries :
        /\ i \notin FailedAttempts
        /\ \A k \in 1..(i - 1) : k \in FailedAttempts

\* C13: a download or an upload (of a local file that exists) whose
\* attempts all fail makes exactly max_retries attempts and then raises;
\* otherwise it stops at the first attempt that succeeds; it waits between
\* consecutive attempts only, never after the last one, and the waits are
\* 2^attempt seconds (1, 2, 4), strictly increasing.
C13_AttemptsAndBackoff ==
    s3_pc = "returned" /\ s3_call.local_exists =>
       /\ EveryAttemptFails =>
             /\ s3_ret.attempts = s3_call.max_retries
             /\ s3_ret.result # "ok"
       /\ ~EveryAttemptFails =>
             /\ s3_ret.attempts = FirstSuccess
             /\ s3_ret.result = "ok"
       /\ Len(s3_ret.sleeps) = Max(s3_ret.attempts - 1, 0)
       /\ \A i \in 1..Len(s3_ret.sleeps) : s3_ret.sleeps[i] = Pow(2, i - 1)
       /\ \A i, k \in 1..Len(s3_ret.sleeps) :
             i < k => s3_ret.sleeps[i] < s3_ret.sleeps[k]

\* a call given four attempts failed four times and waited 1, 2 and 4
C13_Witness ==
    /\ s3_pc = "returned"
    /\ s3_call.local_exists
    /\ s3_call.max_retries = 4
    /\ EveryAttemptFails
    /\ s3_ret.attempts = 4
    /\ s3_ret.sleeps = <<1, 2, 4>>

\* a call stopped at its second attempt, after one wait
C13_WitnessStop ==
    /\ s3_pc = "returned"
    /\ s3_call.max_retries = 4
    /\ s3_ret.result = "ok"
    /\ s3_ret.attempts = 2
    /\ s3_ret.sleeps = <<1>>

\* C14: whenever download or upload does not return successfully, what it
\* raises is an S3Error with the method's code (S3_DOWNLOAD_ERROR,
\* S3_UPLOAD_ERROR) whose original_error is the failure of the last attempt
\* made, for every max_retries the caller may pass.
C14_RaisesS3ErrorOfLastAttempt ==
    s3_pc = "returned" /\ s3_ret.result # "ok" =>
       /\ s3_ret.result = "S3Error"
       /\ s3_ret.code = IF s3_call.op = "download" THEN "S3_DOWNLOAD_ERROR"
                        ELSE "S3_UPLOAD_ERROR"
       /\ s3_ret.attempts > 0 =>
             /\ s3_ret.original_error.attempt = s3_ret.attempts
             /\ s3_ret.original_error.kind =
                   failure_of(s3_call.outcomes[s3_ret.attempts])

\* C15: download returns the local path only if the local file exists and
\* is not empty.
C15_DownloadedFileNotEmpty ==
    S3Returned("download") /\ s3_ret.result = "ok" => s3_ret.file = "ok"

\* C16: upload of a local path that does not exist raises S3Error
\* S3_UPLOAD_ERROR before any remote attempt: no client call, no retry, no
\* wait.
C16_UploadMissingLocalFile ==
    S3Returned("upload") /\ ~s3_call.local_exists =>
       /\ s3_ret.result = "S3Error"
       /\ s3_ret.code = "S3_UPLOAD_ERROR"
       /\ s3_ret.attempts = 0
       /\ s3_ret.sleeps = <<>>

\* an upload of a missing local file returned, and its attempts, had they
\* been made, would have failed twice and then succeeded
C16_Witness ==
    /\ S3Returned("upload")
    /\ ~s3_call.local_exists
    /\ s3_call.max_retries = 3
    /\ s3_call.outcomes = <<"ClientError", "Exception", "ok">>
    /\ s3_ret.result = "S3Error"

(***************************************************************************)
(* Properties of restore_audio in process_video (checked under SpecPV)     *)
(***************************************************************************)
\* C17: restore_audio on a source without an audio stream returns False,
\* leaves the target as create_video wrote it, runs no mux and creates no
\* temp file; process_video goes on.
C17_NoAudioStream ==
    audio.probe = "" =>
       /\ audio.ret = "False"
       /\ audio.mux_runs = 0
       /\ ~audio.temp
       /\ output_video = "video"
       /\ ppc \in {"cleanup", "return", "done"}

\* restore_audio has just returned for a source without an audio stream
C17_Witness ==
    /\ audio.probe = ""
    /\ audio.ret = "False"
    /\ ppc = "cleanup"

\* a media-tool invocation of restore_audio failed: the probe, or the mux
AudioToolFailed ==
    \/ audio.probe \in {"FFmpegError", "OSError"}
    \/ audio.mux_runs = 1 /\ audio.ret # "True"

\* C18: for any failure of a media-tool invocation made by restore_audio
\* (the audio probe or the mux), the target keeps its content, no temp
\* output remains, restore_audio returns False without raising, and
\* process_video goes on to the frame cleanup and returns its result; the
\* target is replaced only after a successful mux.
C18_AudioFailureAbsorbed ==
    /\ AudioToolFailed =>
          /\ audio.ret = "False"
          /\ ~audio.temp
          /\ output_video = "video"
          /\ raised_at # "audio"
          /\ ppc \in {"cleanup", "return", "done"}
          /\ ppc = "done" => result # NoResult
    /\ output_video = "video+audio" => audio.ret = "True" /\ audio.mux_runs = 1

(***************************************************************************)
(* Properties of the scratch directory and of the probe (checked under     *)
(* Spec)                                                                   *)
(***************************************************************************)
\* C19: after TempStorage.cleanup has returned, the job's scratch directory
\* is absent, also when the job faulted in the middle of the pipeline.
C19_ScratchAbsentAfterCleanup ==
    \A t \in Workers :
        pc[t] = "returned" /\ cleanups[t] > 0 => ~job_dir[t]

\* C20: a job whose target video is longer than the configured maximum
\* duration is rejected as failed with VIDEO_TOO_LONG before any frame is
\* extracted: process_video (and with it extract_frames) and upload are
\* never invoked for it.
C20_TooLongRejected ==
    \A t \in Workers :
        target_too_long[t] =>
           /\ pc[t] \notin {"process", "upload", "respond"}
           /\ ~uploaded[t]
           /\ err[t].code = "VIDEO_TOO_LONG"
           /\ HandlerExited(t) => response[t] = "failed"

C21_WitnessPV == ppc = "raised" /\ raised_at = "source_face"

\* no unit of work of the frame stage has started
NoFrameTransformed ==
    /\ \A p \in DOMAIN calls : calls[p] = 0
    /\ \A w \in WorkerIds : wpc[w] = "idle"
    /\ progress_current = 0

C22_WitnessHandler ==
    \E t \in Workers :
        /\ err[t].cause = "extract"
        /\ pc[t] = "returned"
        /\ response[t] = "failed"

(***************************************************************************)
(* Termination of process_video (checked under SpecPVLive)                 *)
(***************************************************************************)
\* C23: every media-tool invocation is bounded by a process timeout, so a
\* run of process_video whose media tool hangs still reaches a terminal
\* outcome: it returns its result or it raises.
C23_MediaToolBounded == <>(ppc \in {"done", "raised"})

\* every run ends: it returns, raises, or waits for a media tool for ever
PVEnds == <>(ppc \in {"done", "raised", "blocked"})

(***************************************************************************)
(* Properties of CallbackService.send (checked under SpecCb)               *)
(***************************************************************************)
\* the POSTs of the call that get a 2xx status
Posts2xx == {i \in 1..cb_call.max_retries : cb_call.outcomes[i] = "2xx"}

\* what the retry loop does once it has made at least one POST
SendRetries ==
    /\ Posts2xx # {} =>
          /\ cb_ret.result = "ok"
          /\ cb_ret.posts \in Posts2xx
          /\ \A i \in Posts2xx : cb_ret.posts <= i
    /\ cb_ret.posts <= cb_call.max_retries
    /\ Len(cb_ret.sleeps) = Max(cb_ret.posts - 1, 0)
    /\ \A i \in 1..Len(cb_ret.sleeps) : cb_ret.sleeps[i] = 5 * Pow(3, i - 1)

\* C24: send returns True at the first POST answered with a 2xx status,
\* without further attempts; on timeout, non-2xx status or transport error
\* it retries, makes at most the configured maximum of POSTs, waits
\* 5 * 3^attempt seconds between consecutive attempts only, and raises
\* CallbackError after the last failed attempt.
C24_SendRetriesThenCallbackError ==
    cb_pc = "returned" =>
       /\ SendRetries
       /\ Posts2xx = {} =>
             /\ cb_ret.result = "CallbackError"
             /\ cb_ret.posts = cb_call.max_retries

\* with a maximum of one POST or more, send does all of that
C24_FromOneAttempt ==
    cb_pc = "returned" /\ cb_call.max_retries >= 1 =>
       /\ SendRetries
       /\ Posts2xx = {} =>
             /\ cb_ret.result = "CallbackError"
             /\ cb_ret.posts = cb_call.max_retries


\* C25: the result of process_video reports fps equal to the probed frame
\* rate of the target when keep_fps is set and 30 otherwise, duration equal
\* to the probed duration (not recomputed from the frame count), and
\* frames_processed equal to the number of extracted frames; the same fps
\* value is the one create_video was given.
C25_ResultFpsDuration ==
    ppc = "done" =>
       /\ video_info = get_video_info(target_path)
       /\ result.fps = IF options.keep_fps THEN video_info.fps ELSE 30
       /\ result.duration = video_info.duration
       /\ result.frames_processed = K
       /\ framerate = result.fps

\* a 10 second target of 24 frames per second, two frames extracted,
\* keep_fps off: the result says 30 fps and 10 seconds
C25_Witness ==
    /\ ppc = "done"
    /\ ~options.keep_fps
    /\ video_info.fps = 24
    /\ result.fps = 30
    /\ framerate = 30
    /\ result.duration = 10
    /\ K = 2
    /\ result.frames_processed = 2

\* the same target with keep_fps on: the result says the probed 24 fps
C25_WitnessKeepFps ==
    /\ ppc = "done"
    /\ options.keep_fps
    /\ video_info.fps = 24
    /\ result.fps = 24
    /\ framerate = 24
    /\ result.duration = 10

\* the largest faces_count over the frames, 0 when nothing was detected
MaxDetection ==
    IF detections = {} THEN 0
    ELSE CHOOSE n \in {d[2] : d \in detections} :
            \A d \in detections : d[2] <= n

\* C26: for every interleaving of the frame workers, faces_detected of the
\* result is the maximum over all frames of the frame's detection count, 0
\* when no frame has a detection: never a sum, and no update of the running
\* maximum is lost.
C26_FacesDetectedIsMaximum ==
    /\ ppc = "done" => result.faces_detected = MaxDetection
    /\ (ppc \in {"assemble", "audio", "cleanup", "return", "done"})
          => max_faces_detected = MaxDetection

\* pool threads, two faces in one frame and one face in another: the result
\* says 2, not 3 and not 1
C26_Witness ==
    /\ ppc = "done"
    /\ Pooled
    /\ \E d, e \in detections : d[1] # e[1] /\ d[2] = 2 /\ e[2] = 1
    /\ result.faces_detected = 2

\* two threads inside process_single_frame at once, both with detections:
\* one holds faces_lock, the other waits for it
C26_WitnessContended ==
    \E v, w \in PoolWorkers :
       /\ wpc[v] = "max_rel" /\ wpc[w] = "max_acq"
       /\ faces_count[v] = 2 /\ faces_count[w] = 1

\* get_video_info returned to process_video
ProbeReturned == video_info # NoInfo

\* the fixed default of get_video_info
DefaultInfo ==
    /\ video_info.width = 1920
    /\ video_info.height = 1080
    /\ video_info.fps = 30

\* C27 as stated: get_video_info always returns a usable structure to its
\* caller, the default 1920x1080 at 30 fps when probing fails entirely; it
\* never raises.
C27_AlwaysReturns ==
    /\ raised_at # "probe"
    /\ (ProbeReturned /\ target_path.reported \in {"failed", "unparsable"})
          => DefaultInfo

\* C27: get_video_info returns a usable structure whenever the file at the
\* path exists, the default 1920x1080 at 30 fps when probing fails entirely
\* (ffprobe fails or its output does not parse); it raises, with
\* FileNotFoundError, only for a path where no file is.
C27_ReturnsUnlessFileMissing ==
    /\ raised_at = "probe" => ~target_path.exists
    /\ (~target_path.exists /\ ppc \notin {"start", "source_read", "probe"})
          => (ppc = "raised" /\ ~ProbeReturned)
    /\ ProbeReturned =>
          /\ target_path.exists
          /\ video_info.raised = "none"
          /\ target_path.reported \in {"failed", "unparsable"} => DefaultInfo
          /\ target_path.reported \notin {"failed", "unparsable"} =>
                /\ video_info.width = target_path.width
                /\ video_info.height = target_path.height
                /\ video_info.fps = target_path.fps
    /\ (ppc = "extract" /\ target_path.exists) => ProbeReturned

\* ffprobe fails on a video of 24 frames per second: process_video goes on
\* to extract the frames with the default structure
C27_Witness ==
    /\ ppc = "extract"
    /\ target_path.reported = "failed"
    /\ target_path.fps = 24
    /\ DefaultInfo
    /\ video_info.duration = 0

\* the output of ffprobe does not parse
C27_WitnessUnparsable ==
    /\ ppc = "extract"
    /\ target_path.reported = "unparsable"
    /\ DefaultInfo

\* the stage process_video is in: reading the source, probing, extracting,
\* transforming the frames, assembling, restoring the audio, cleaning up,
\* returning; 0 before the first, 9 once it raised or hangs in a tool
StageRank(at) ==
    CASE at \in {"off", "start"} -> 0
      [] at = "source_read" -> 1
      [] at = "probe" -> 2
      [] at = "extract" -> 3
      [] at \in {"transform", "pool", "seq", "unwinding"} -> 4
      [] at = "assemble" -> 5
      [] at = "audio" -> 6
      [] at = "cleanup" -> 7
      [] at \in {"return", "done"} -> 8
      [] at \in {"raised", "blocked"} -> 9

\* the stages that may follow a stage: the next one, the one after the
\* audio stage when that is left out, or the end by an exception
StageFollows(a, b) ==
    \/ StageRank(b) = StageRank(a) + 1 /\ StageRank(b) < 9
    \/ StageRank(a) = 5 /\ StageRank(b) = 7
    \/ StageRank(a) < 8 /\ StageRank(b) = 9

\* C28: process_video passes through its stages only in the order source
\* read, probe, extraction, transformation, assembly, audio restoration,
\* cleanup, done: no stage is entered twice or revisited, the audio stage is
\* entered only when keep_audio is set, and a result is returned only at
\* the end, after the cleanup.
C28_StagesInOrder ==
    [][/\ StageRank(ppc') # StageRank(ppc) => StageFollows(ppc, ppc')
       /\ ppc' = "audio" => options.keep_audio
       /\ (StageRank(ppc) = 5 /\ StageRank(ppc') = 7) => ~options.keep_audio
       /\ result' # result => (ppc = "return" /\ ppc' = "done"
                                /\ result = NoResult)
       /\ (ppc' = "done" /\ ppc # "done") => result' # NoResult]_vars

\* a run that went through every stage, the audio stage included
C28_Witness ==
    /\ ppc = "done"
    /\ options.keep_audio
    /\ audio # NoAudio
    /\ K = 2
    /\ assembled # <<>>
    /\ result # NoResult

\* a run without keep_audio: no restore_audio call was made
C28_WitnessNoAudio ==
    /\ ppc = "done"
    /\ ~options.keep_audio
    /\ audio = NoAudio
    /\ result # NoResult

\* the frames inside process_single_frame
FramesInFlight == {q \in DOMAIN futures : futures[q] = "running"}

C29_WitnessSequential ==
    /\ options.execution_threads = 1
    /\ Len(frame_paths) = 2
    /\ futures[frame_paths[1]] \in Terminal
    /\ futures[frame_paths[2]] = "running"

\* the frames whose cv2.imread returned None
SkippedFrames == {q \in DOMAIN futures : futures[q] = "skipped"}

\* C30: a frame that cannot be read from disk is skipped without error: it
\* counts as zero detections, nothing is detected, swapped, enhanced or
\* written for it, it counts as one completed frame in the progress
\* counter, and the batch goes on.
C30_UnreadableFrameSkipped ==
    /\ \A w \in WorkerIds :
          unread[w] => /\ wpc[w] \in {"inc_acq", "inc_rel"}
                       /\ faces_count[w] = 0
                       /\ \A d \in detections : d[1] # task[w]
                       /\ task[w] \in DOMAIN frames_dir
                       /\ frames_dir[task[w]] = <<>>
    /\ \A q \in SkippedFrames :
          /\ incs[q] = 1
          /\ calls[q] = 1
          /\ \A d \in detections : d[1] # q
          /\ q \in DOMAIN frames_dir => frames_dir[q] = <<>>
    /\ SkippedFrames # {} => raised_at # "transform"
    /\ (SkippedFrames # {} /\ AfterTransform) =>
          \A q \in Range(frame_paths) : calls[q] = 1 /\ futures[q] \in Terminal

\* the first of two frames could not be read, the second was processed:
\* process_video returned, both frames counted
C30_Witness ==
    /\ ppc = "done"
    /\ Len(frame_paths) = 2
    /\ futures[frame_paths[1]] = "skipped"
    /\ futures[frame_paths[2]] = "done"
    /\ progress_current = 2
    /\ result.frames_processed = 2
    /\ assembled # <<>>

\* a thread that could not read its frame is about to count it
C30_WitnessSkipping ==
    \E w \in WorkerIds : unread[w] /\ wpc[w] = "inc_acq"

\* the number of entries of a log that are e
Count(log, e) == Cardinality({i \in DOMAIN log : log[i] = e})

\* C31: for a frame, enhance is invoked exactly once when face_enhancer is
\* requested and at least one target was detected in the frame, and not at
\* all otherwise; never once per detection; and after every swap of the
\* frame.
C31_EnhanceOncePerFrame ==
    fr_pc = "returned" =>
       /\ Count(fr_ret.log, "enhance") =
             IF fr_call.opts.face_enhancer /\ fr_ret.faces_count > 0 THEN 1 ELSE 0
       /\ \A i, j \in DOMAIN fr_ret.log :
             (fr_ret.log[i] = "enhance" /\ fr_ret.log[j] = "swap") => j < i
       /\ Count(fr_ret.log, "swap") = fr_ret.faces_count

\* two faces detected and swapped, then one enhancement
C31_Witness ==
    /\ fr_pc = "returned"
    /\ fr_call.opts.face_enhancer
    /\ fr_ret.faces_count = 2
    /\ fr_ret.log = <<"swap", "swap", "enhance", "imwrite", "increment">>

\* enhancement requested, no face detected: no enhancement
C31_WitnessNoFace ==
    /\ fr_pc = "returned"
    /\ fr_call.opts.face_enhancer
    /\ fr_ret.faces_count = 0
    /\ fr_ret.log = <<"imwrite", "increment">>

\* what detection found in the frame of the call
FoundFaces == FaceAnalyser_detect_faces(fr_call.xs, fr_call.detect)

C32_WitnessManyFaces ==
    /\ fr_pc = "returned"
    /\ fr_call.opts.many_faces
    /\ Len(FoundFaces) = 2
    /\ fr_ret.frame.swapped = <<1, 2>>

\* the targets of the call whose swap changed the frame
SwapsDone ==
    {i \in DOMAIN fr_ret.targets : fr_call.swaps[fr_ret.targets[i].id] = "ok"}

\* C33: a failing provider call never raises out of the processing of a
\* frame: a failed detection gives an empty detection list, a failed swap
\* gives back the frame as it was before that swap, a failed enhance gives
\* back the frame it was given, and the frame is then written back and
\* counted as completed.
C33_ProviderFailureAbsorbed ==
    fr_pc = "returned" =>
       /\ ~fr_ret.raised
       /\ fr_call.detect = "raises" => (fr_ret.faces_count = 0 /\ fr_ret.frame = NewFrame)
       /\ Len(fr_ret.frame.swapped) = Cardinality(SwapsDone)
       /\ \A i \in DOMAIN fr_ret.targets :
             (i \in SwapsDone) <=>
                (\E k \in DOMAIN fr_ret.frame.swapped :
                    fr_ret.frame.swapped[k] = fr_ret.targets[i].id)
       /\ fr_ret.frame.enhanced <=>
             (Count(fr_ret.log, "enhance") = 1 /\ fr_call.enhance = "ok")
       /\ Len(fr_ret.log) >= 2
       /\ SubSeq(fr_ret.log, Len(fr_ret.log) - 1, Len(fr_ret.log)) =
             <<"imwrite", "increment">>

\* the swap of the first of two faces raises, the second succeeds, the
\* enhancement raises: the frame holds the second swap only and is written
C33_Witness ==
    /\ fr_pc = "returned"
    /\ Len(fr_ret.targets) = 2
    /\ fr_call.swaps[1] = "raises"
    /\ fr_call.swaps[2] = "ok"
    /\ fr_call.opts.face_enhancer
    /\ fr_call.enhance = "raises"
    /\ fr_ret.frame = [swapped |-> <<2>>, enhanced |-> FALSE]
    /\ fr_ret.log = <<"swap", "swap", "enhance", "imwrite", "increment">>

\* the detection raises on a frame with two faces
C33_WitnessDetection ==
    /\ fr_pc = "returned"
    /\ Len(fr_call.xs) = 2
    /\ fr_call.detect = "raises"
    /\ fr_ret.log = <<"imwrite", "increment">>

\* the counts at which a progress line is due: the multiples of 100 up to
\* the total, and the total
ReportMoments ==
    {n \in 1..total_frames : n % ProgressEvery = 0 \/ n = total_frames}

\* C34: in sequential and in pooled mode a progress report is emitted
\* exactly once each time the number of completed frames reaches a multiple
\* of 100, exactly once when it reaches the total, and at no other moment,
\* for every interleaving of the workers and any mix of frame successes and
\* failures.
C34_ReportsAtCadence ==
    /\ \A i \in DOMAIN reports : reports[i] \in ReportMoments
    /\ \A i, j \in DOMAIN reports : i # j => reports[i] # reports[j]
    /\ AfterTransform =>
          \A n \in ReportMoments : \E i \in DOMAIN reports : reports[i] = n

\* the pool finished both frames before the loop looked at the first
\* future: "2/2" is logged twice
C34_ReportedTwice ==
    /\ Pooled
    /\ total_frames = 2
    /\ reports = <<2, 2>>

\* C35: over any sequence of download, upload and check_exists calls on one
\* S3Service a client for a non-default region is built only when the
\* region is first used and is reused for every later call to that region
\* (at most one client built per non-default region); calls to the default
\* region always use the client built at construction.
C35_OneClientPerRegion ==
    /\ \A c, d \in DOMAIN rg_clients : rg_clients[c] = rg_clients[d] => c = d
    /\ \A i, j \in DOMAIN rg_calls :
          rg_calls[i].region = rg_calls[j].region
             => rg_calls[i].client = rg_calls[j].client
    /\ \A i \in DOMAIN rg_calls :
          /\ rg_clients[rg_calls[i].client] = rg_calls[i].region
          /\ rg_calls[i].region = DefaultRegion => rg_calls[i].client = SelfClient

\* two uses of the same non-default region, two clients built for it
C35_SecondClientBuilt ==
    /\ Len(rg_calls) = 2
    /\ rg_calls[1].region = "region_a"
    /\ rg_calls[2].region = "region_a"
    /\ rg_calls[1].client # rg_calls[2].client
    /\ rg_clients = <<DefaultRegion, "region_a", "region_a">>

\* the part of C35 about the default region holds
C35_DefaultRegionUsesSelfClient ==
    \A i \in DOMAIN rg_calls :
       rg_calls[i].region = DefaultRegion => rg_calls[i].client = SelfClient

\* the job of thread t got as far as process_video probing the target
EngineProbed(t) ==
    \E i \in DOMAIN steps[t] :
       /\ steps[t][i].step = "process"
       /\ steps[t][i].ok \/ err[t].cause \in {"extract", "assemble", "audio"}

\* C36: the video information is derived once per job: the target video is
\* probed a single time, the values checked against the limits being the
\* ones later used for the output frame rate and the reported duration.
C36_ProbedOncePerJob == \A t \in ThreadIds : probed[t] <= 1

\* a completed job: handler probed the target, and process_video probed it
\* again
C36_ProbedTwice ==
    \E t \in ThreadIds :
       /\ response[t] = "completed"
       /\ EngineProbed(t)
       /\ probed[t] = 2

\* invocation i is between TempStorage(job_id) and the end of its cleanup
ScratchInUse(i) ==
    sc_pc[i] \in {"dl_source", "dl_target", "process", "upload", "finally"}

\* what is in the scratch directory of invocation i
ScratchOf(i) ==
    [dir |-> job_dir_of(sc_job_id[i]) \in sc_dirs,
     files |-> {f \in sc_files : IsPrefix(job_dir_of(sc_job_id[i]), f.path)}]

\* invocation j runs its cleanup
CleanupBy(j) == sc_pc[j] = "finally" /\ sc_pc'[j] = "returned"

\* C37: the scratch directory of a job is used by that job only: for any
\* two handler invocations running concurrently and any job ids of their
\* inputs (empty, equal or nested ones included), the cleanup of one job
\* never removes or alters the scratch files of the other job while that
\* one is still running.
C37_CleanupSparesRunningJobs ==
    [][\A i, j \in Invocations :
          i # j /\ CleanupBy(j) /\ ScratchInUse(i) => ScratchOf(i)' = ScratchOf(i)]_vars

\* two jobs of the same job_id: one has downloaded both of its files and
\* is about to process them, the other has returned, and the files are gone
C37_FilesRemovedByOtherJob ==
    \E i, j \in Invocations :
       /\ i # j
       /\ sc_job_id[i] = sc_job_id[j]
       /\ sc_pc[i] = "process"
       /\ sc_pc[j] = "returned"
       /\ ~file_exists(sc_files, get_path(sc_job_id[i], "target.mp4"))

\* the same with a job whose job_id is empty: its cleanup removes temp_dir
\* and the directory of the job "a" with it
C37_EmptyIdRemovesAll ==
    \E i, j \in Invocations :
       /\ sc_job_id[j] = <<>>
       /\ sc_job_id[i] = <<"a">>
       /\ sc_pc[i] = "process"
       /\ sc_pc[j] = "returned"
       /\ temp_dir \notin sc_dirs

\* job ids that spell directories apart from each other
Apart(i, j) ==
    /\ ~IsPrefix(job_dir_of(sc_job_id[i]), job_dir_of(sc_job_id[j]))
    /\ ~IsPrefix(job_dir_of(sc_job_id[j]), job_dir_of(sc_job_id[i]))

\* with job ids that are non-empty, different and not nested, the cleanup
\* of one job leaves the scratch directory of the other as it is
C37_ApartJobsAreSpared ==
    [][\A i, j \in Invocations :
          i # j /\ Apart(i, j) /\ CleanupBy(j) => ScratchOf(i)' = ScratchOf(i)]_vars

\* the steps of handler, in the order of its code
StepNames ==
    <<"validate", "dl_source", "dl_target", "probe", "process", "upload",
      "callback">>

\* the step called name ran for the job of thread t and succeeded
Succeeded(t, name) ==
    \E i \in DOMAIN steps[t] : steps[t][i].step = name /\ steps[t][i].ok

\* C38: the steps of handler run in the fixed order validate request,
\* download source, download target, probe and check constraints, process
\* video, upload result, send callback; a failure of any step before the
\* callback prevents every later step (the failure callback and cleanup
\* apart), and a "completed" outcome is returned only if both downloads,
\* the processing and the upload all succeeded.
C38_StepsInOrder ==
    \A t \in ThreadIds :
       /\ Len(steps[t]) <= Len(StepNames)
       /\ \A i \in DOMAIN steps[t] :
             /\ steps[t][i].step = StepNames[i]
             /\ i < Len(steps[t]) => steps[t][i].ok
       /\ response[t] = "completed" =>
             /\ Succeeded(t, "dl_source")
             /\ Succeeded(t, "dl_target")
             /\ Succeeded(t, "process")
             /\ Succeeded(t, "upload")

\* a job completed after all seven steps, the callback included
C38_Witness ==
    \E t \in ThreadIds :
       /\ response[t] = "completed"
       /\ Len(steps[t]) = 7
       /\ \A i \in DOMAIN steps[t] : steps[t][i].ok

\* a job whose target download failed: it ran three steps, sent the failure
\* callback, cleaned up and returned failed
C38_WitnessDownloadFailed ==
    \E t \in ThreadIds :
       /\ pc[t] = "returned"
       /\ response[t] = "failed"
       /\ Len(steps[t]) = 3
       /\ steps[t][3] = [step |-> "dl_target", ok |-> FALSE]
       /\ "failed" \in sent[t]
       /\ cleanups[t] = 1

\* C39: in every reachable state, under any interleaving of concurrent
\* handler invocations and initialize calls, _initialized being true implies
\* that the global s3_service is set and that the global engine is an engine
\* whose models are loaded; a job that finds _initialized true therefore
\* never fails with "Models not loaded".
C39_InitializedMeansReady ==
    /\ _initialized =>
          /\ s3_service # 0
          /\ engine # 0
          /\ engines[engine]._models_loaded
    /\ \A t \in Workers : _initialized => err[t].cause # "Models not loaded"

\* one initialize has set the flag, and another one, which had read the
\* flag before, has bound the global engine to a new engine since
C39_FlagSetEngineUnloaded ==
    /\ _initialized
    /\ engine # 0
    /\ ~engines[engine]._models_loaded
    /\ \E e \in DOMAIN engines : e # engine /\ engines[e]._models_loaded

\* a job went through all steps up to the processing with the flag set and
\* failed there with "Models not loaded"
C39_JobFailsModelsNotLoaded ==
    \E t \in Workers :
       /\ _initialized
       /\ Succeeded(t, "probe")
       /\ err[t] = [code |-> "PROCESSING_ERROR", cause |-> "Models not loaded"]

\* C40: for one job the webhook never receives both a "completed" and a
\* "failed" payload, a callback is sent only when the job input has a
\* callback URL, and the status handler returns equals the status of every
\* payload sent for that job; a failure while sending the failure callback
\* does not change the returned failed outcome.
C40_OneOutcomeForWebhook ==
    \A t \in ThreadIds :
       /\ ~({"completed", "failed"} \subseteq received[t])
       /\ sent[t] \cup received[t] # {} => job[t].callback_url
       /\ \A status \in received[t] : response[t] = status
       /\ pc[t] = "returned" /\ err[t] # NoErr => response[t] = "failed"

\* a job with a callback URL went through all its steps: its completed
\* payload was POSTed, it is returned as completed and no failed payload
\* was POSTed
C40_Witness ==
    \E t \in ThreadIds :
       /\ pc[t] = "returned"
       /\ callback_max_retries = MaxCallbackRetries
       /\ received[t] = {"completed"}
       /\ response[t] = "completed"
       /\ Succeeded(t, "callback")

\* a job whose upload failed and whose failure callback raised as well
\* (send with no attempts to make): it is returned as failed
C40_WitnessFailureCallbackFailed ==
    \E t \in ThreadIds :
       /\ pc[t] = "returned"
       /\ job[t].callback_url
       /\ callback_max_retries = 0
       /\ err[t].code = "S3_UPLOAD_ERROR"
       /\ "failed" \in sent[t]
       /\ received[t] = {}
       /\ response[t] = "failed"

\* a failed job whose failure payload was POSTed
C40_WitnessFailedPosted ==
    \E t \in ThreadIds :
       /\ pc[t] = "returned"
       /\ received[t] = {"failed"}
       /\ response[t] = "failed"
====
